---- MODULE Spec2Model ----
(***************************************************************************)
(* A model of the jsondb.cloud MCP bridge (JsonDBCloud/mcp).               *)
(*                                                                         *)
(*   - src/src/index.ts            process start-up and the two transports *)
(*   - src/src/tools/_helpers.ts   response formatters, REST client        *)
(*   - src/src/tools/*.ts          the operation handlers                  *)
(*                                                                         *)
(* Two specifications share the variables:                                 *)
(*   Spec      the process: main(), the HTTP listener, per-request         *)
(*             sessions and their release;                                 *)
(*   ToolSpec  one operation handler invocation at a time: arguments,      *)
(*             the outcome of the backing call, the ToolResponse.          *)
(***************************************************************************)
EXTENDS Integers, Sequences, FiniteSets, TLC

VARIABLES
    env,          \* process.env as read by main(): fixed at process start
    pc,           \* position of main() / state of the process
    exitCode,     \* process exit status, NoExit while running
    db,           \* the JsonDB SDK client, NoDb before `new JsonDB`
    listener,     \* TRUE once http.createServer(...).listen has run
    servers,      \* every McpServer constructed so far (index = identity)
    transports,   \* every transport constructed so far (index = identity)
    reqs,         \* per inbound HTTP request: listener position, session, response
    call,         \* ToolSpec: the handler invocation under way
    result        \* ToolSpec: what the invocation produced

vars == <<env, pc, exitCode, db, listener, servers, transports, reqs, call, result>>

(***************************************************************************)
(* JSON values.  A JavaScript value is a tagged record; objects keep their *)
(* members as a sequence of <<key, value>> in insertion order.  JUndef is  *)
(* JavaScript's undefined, which is not a JSON value.                      *)
(***************************************************************************)
JNull == [t |-> "null"]
JUndef == [t |-> "undef"]
JBool(b) == [t |-> "bool", b |-> b]
JNum(n) == [t |-> "num", n |-> n]
JStr(s) == [t |-> "str", s |-> s]
JArr(a) == [t |-> "arr", a |-> a]
JObj(o) == [t |-> "obj", o |-> o]
\* a string kept as the sequence of its segments (a URL: its "/" are segments)
JText(k) == [t |-> "text", k |-> k]

\* obj[key] (JUndef when the key is absent)
RECURSIVE GetFrom(_, _, _)
GetFrom(o, key, i) ==
    IF i > Len(o) THEN JUndef
    ELSE IF o[i][1] = key THEN o[i][2]
    ELSE GetFrom(o, key, i + 1)

Get(v, key) == IF v.t = "obj" THEN GetFrom(v.o, key, 1) ELSE JUndef

\* JavaScript truthiness of a value (for `x || fallback`)
Truthy(v) ==
    CASE v.t = "undef" -> FALSE
      [] v.t = "null" -> FALSE
      [] v.t = "bool" -> v.b
      [] v.t = "num" -> v.n # 0
      [] v.t = "str" -> v.s # ""
      [] v.t = "text" -> v.k # <<>>
      [] OTHER -> TRUE

(***************************************************************************)
(* JSON.stringify(value, null, 2): the text as a sequence of lexical       *)
(* tokens (the indentation the third argument adds is insignificant        *)
(* whitespace and is not represented).  undefined at the top level gives   *)
(* no text at all; an undefined member is left out of its object; an       *)
(* undefined array element is written as null.                             *)
(***************************************************************************)
Tok(k) == [tok |-> k]
TokStr(s) == [tok |-> "string", s |-> s]
TokNum(n) == [tok |-> "number", n |-> n]
NoText == <<Tok("undefined")>>

RECURSIVE SerValue(_), SerElems(_, _), SerMembers(_, _, _)
SerValue(v) ==
    CASE v.t = "null" -> <<Tok("null")>>
      [] v.t = "undef" -> <<Tok("null")>>
      [] v.t = "bool" -> <<Tok(IF v.b THEN "true" ELSE "false")>>
      [] v.t = "num" -> <<TokNum(v.n)>>
      [] v.t = "str" -> <<TokStr(v.s)>>
      [] v.t = "arr" -> <<Tok("[")>> \o SerElems(v.a, 1) \o <<Tok("]")>>
      [] v.t = "obj" -> <<Tok("{")>> \o SerMembers(v.o, 1, TRUE) \o <<Tok("}")>>

SerElems(a, i) ==
    IF i > Len(a) THEN <<>>
    ELSE (IF i > 1 THEN <<Tok(",")>> ELSE <<>>) \o SerValue(a[i]) \o SerElems(a, i + 1)

SerMembers(o, i, first) ==
    IF i > Len(o) THEN <<>>
    ELSE IF o[i][2].t = "undef" THEN SerMembers(o, i + 1, first)
    ELSE (IF first THEN <<>> ELSE <<Tok(",")>>)
         \o <<TokStr(o[i][1]), Tok(":")>> \o SerValue(o[i][2])
         \o SerMembers(o, i + 1, FALSE)

Stringify(v) == IF v.t = "undef" THEN NoText ELSE SerValue(v)

(***************************************************************************)
(* JSON.parse(text): a recursive-descent parser over the tokens.  The      *)
(* result is [ok |-> TRUE, v |-> value] or [ok |-> FALSE] (SyntaxError).   *)
(***************************************************************************)
ParseFail == [ok |-> FALSE]

\* object members: a later duplicate key replaces the earlier one in place
RECURSIVE PutMember(_, _, _, _)
PutMember(o, key, val, i) ==
    IF i > Len(o) THEN Append(o, <<key, val>>)
    ELSE IF o[i][1] = key THEN [o EXCEPT ![i] = <<key, val>>]
    ELSE PutMember(o, key, val, i + 1)

RECURSIVE ParseValue(_, _), ParseElems(_, _, _), ParseMembers(_, _, _)
ParseValue(toks, i) ==
    IF i > Len(toks) THEN ParseFail
    ELSE LET k == toks[i].tok IN
         CASE k = "null" -> [ok |-> TRUE, v |-> JNull, next |-> i + 1]
           [] k = "true" -> [ok |-> TRUE, v |-> JBool(TRUE), next |-> i + 1]
           [] k = "false" -> [ok |-> TRUE, v |-> JBool(FALSE), next |-> i + 1]
           [] k = "number" -> [ok |-> TRUE, v |-> JNum(toks[i].n), next |-> i + 1]
           [] k = "string" -> [ok |-> TRUE, v |-> JStr(toks[i].s), next |-> i + 1]
           [] k = "[" ->
                IF i + 1 <= Len(toks) /\ toks[i + 1].tok = "]"
                THEN [ok |-> TRUE, v |-> JArr(<<>>), next |-> i + 2]
                ELSE ParseElems(toks, i + 1, <<>>)
           [] k = "{" ->
                IF i + 1 <= Len(toks) /\ toks[i + 1].tok = "}"
                THEN [ok |-> TRUE, v |-> JObj(<<>>), next |-> i + 2]
                ELSE ParseMembers(toks, i + 1, <<>>)
           [] OTHER -> ParseFail

ParseElems(toks, i, acc) ==
    LET e == ParseValue(toks, i) IN
    IF ~e.ok \/ e.next > Len(toks) THEN ParseFail
    ELSE IF toks[e.next].tok = "," THEN ParseElems(toks, e.next + 1, Append(acc, e.v))
    ELSE IF toks[e.next].tok = "]"
         THEN [ok |-> TRUE, v |-> JArr(Append(acc, e.v)), next |-> e.next + 1]
    ELSE ParseFail

ParseMembers(toks, i, acc) ==
    IF i + 1 > Len(toks) \/ toks[i].tok # "string" \/ toks[i + 1].tok # ":" THEN ParseFail
    ELSE LET m == ParseValue(toks, i + 2) IN
         IF ~m.ok \/ m.next > Len(toks) THEN ParseFail
         ELSE LET o == PutMember(acc, toks[i].s, m.v, 1) IN
              IF toks[m.next].tok = "," THEN ParseMembers(toks, m.next + 1, o)
              ELSE IF toks[m.next].tok = "}"
                   THEN [ok |-> TRUE, v |-> JObj(o), next |-> m.next + 1]
              ELSE ParseFail

Parse(text) ==
    LET p == ParseValue(text, 1) IN
    IF p.ok /\ p.next = Len(text) + 1 THEN [ok |-> TRUE, v |-> p.v] ELSE ParseFail

(***************************************************************************)
(* Response Formatter (src/src/tools/_helpers.ts; each tools file that     *)
(* does not import it carries an identical private copy).                  *)
(***************************************************************************)
\* a variant of success that puts the value in an envelope
successWrapped(data) ==
    [content |-> <<[type |-> "text",
                    text |-> Stringify(JObj(<< <<"data", data>> >>))]>>]

\* { content: [{ type: "text", text: JSON.stringify(data, null, 2) }] }
success(data) == [content |-> <<[type |-> "text", text |-> Stringify(data)]>>]

\* a variant of error that leaves isError out
ErrorFlagOmitted(code, message, suggestion) ==
    [content |-> <<[type |-> "text",
                    text |-> Stringify(JObj(<<
                        <<"error", JObj(<< <<"code", JStr(code)>>,
                                           <<"message", message>>,
                                           <<"suggestion", JStr(suggestion)>> >>)>> >>))]>>]

\* { content: [{ type: "text", text: JSON.stringify({ error: {...} }, null, 2) }],
\*   isError: true }
error(code, message, suggestion) ==
    [content |-> <<[type |-> "text",
                    text |-> Stringify(JObj(<<
                        <<"error", JObj(<< <<"code", JStr(code)>>,
                                           <<"message", message>>,
                                           <<"suggestion", JStr(suggestion)>> >>)>> >>))]>>,
     isError |-> TRUE]

(***************************************************************************)
(* Promises.  An awaited call settles as Resolved(value) or Rejected(err); *)
(* a handler invocation ends by returning a ToolResponse or, were an       *)
(* exception to leave its catch block, as Thrown(err).                     *)
(***************************************************************************)
Resolved(v) == [ok |-> TRUE, v |-> v]
Rejected(e) == [ok |-> FALSE, err |-> e]
Thrown(e) == [threw |-> e]

\* an Error instance: an object whose message is `msg` and that has no status
ErrorOf(msg) == JObj(<< <<"message", JStr(msg)>> >>)

IsNullish(v) == v.t \in {"null", "undef"}

\* `e.status` with e null or undefined, inside a catch block
CatchTypeError == ErrorOf("Cannot read properties of undefined (reading 'status')")

\* a variant of OrDefault without the default: `m` in place of `m || d`
MessageAsIs(m, d) == m

\* `m || d` where d is a string
OrDefault(m, d) == IF Truthy(m) THEN m ELSE JStr(d)

(***************************************************************************)
(* REST client.  A fetch() either rejects (network-level failure) or       *)
(* resolves to a Response: status, statusText and the body text.           *)
(***************************************************************************)
NetFail(msg) == [net |-> FALSE, err |-> ErrorOf(msg)]
HttpResp(status, statusText, body) ==
    [net |-> TRUE, status |-> status, statusText |-> statusText, body |-> body]

\* Response.ok
ResOk(res) == res.status >= 200 /\ res.status <= 299

\* await res.json()
ResJson(res) ==
    LET p == Parse(res.body) IN
    IF p.ok THEN Resolved(p.v) ELSE Rejected(ErrorOf("Unexpected end of JSON input"))

\* const b = await res.json().catch(() => ({}));
\* throw { status: res.status, message: b.error || res.statusText };
ThrowUpstreamFailure(res) ==
    LET j == ResJson(res)
        b == IF j.ok THEN j.v ELSE JObj(<<>>)
    IN IF IsNullish(b)
       THEN Rejected(ErrorOf("Cannot read properties of null (reading 'error')"))
       ELSE Rejected(JObj(<< <<"status", JNum(res.status)>>,
                             <<"message", IF Truthy(Get(b, "error")) THEN Get(b, "error")
                                          ELSE JStr(res.statusText)>> >>))

OkSentinel == JObj(<< <<"ok", JBool(TRUE)>> >>)

\* _helpers.ts apiFetch, from `await fetch(url, opts)` on
apiFetch(fo) ==
    IF ~fo.net THEN Rejected(fo.err)
    ELSE IF ~ResOk(fo) THEN ThrowUpstreamFailure(fo)
    ELSE IF fo.status = 204 THEN Resolved(OkSentinel)
    ELSE ResJson(fo)

\* webhooks.ts webhookFetch, from `await fetch(url, opts)` on
webhookFetch(fo) ==
    IF ~fo.net THEN Rejected(fo.err)
    ELSE IF ~ResOk(fo) THEN ThrowUpstreamFailure(fo)
    ELSE IF fo.status = 204 THEN Resolved(OkSentinel)
    ELSE ResJson(fo)

\* versions.ts versionFetch, from `await fetch(url, {...})` on
versionFetch(fo) ==
    IF ~fo.net THEN Rejected(fo.err)
    ELSE IF ~ResOk(fo) THEN ThrowUpstreamFailure(fo)
    ELSE IF fo.status = 204 THEN Resolved(OkSentinel)
    ELSE ResJson(fo)

\* collections.ts: the fetch written out inside list_collections,
\* import_documents and export_collection (no 204 case)
inlineFetch(fo) ==
    IF ~fo.net THEN Rejected(fo.err)
    ELSE IF ~ResOk(fo) THEN ThrowUpstreamFailure(fo)
    ELSE ResJson(fo)

(***************************************************************************)
(* Operation handlers.  Each is `(args, settled) -> ToolResponse`, where   *)
(* settled is how the handler's awaited backing call ended.  Handlers that *)
(* do more than `return success(value)` after the await have that part of  *)
(* their try block as <name>_try; a throw inside it lands in the handler's *)
(* own catch block like a rejection of the backing call.                   *)
(***************************************************************************)
Member(k, v) == <<k, v>>

\* { ...base, ...v }: own enumerable properties of v, later keys replacing
\* earlier ones in place; array elements spread as index keys, which
\* JavaScript orders before string keys
RECURSIVE SpreadMembers(_, _, _), IndexMembers(_, _)
SpreadMembers(o, ms, i) ==
    IF i > Len(ms) THEN o
    ELSE SpreadMembers(PutMember(o, ms[i][1], ms[i][2], 1), ms, i + 1)

IndexMembers(a, i) ==
    IF i > Len(a) THEN <<>>
    ELSE <<Member(ToString(i - 1), a[i])>> \o IndexMembers(a, i + 1)

Spread(base, v) ==
    CASE v.t = "obj" -> JObj(SpreadMembers(base.o, v.o, 1))
      [] v.t = "arr" -> JObj(IndexMembers(v.a, 1) \o base.o)
      [] OTHER -> base

\* value.length
LengthOf(v) ==
    CASE v.t = "arr" -> JNum(Len(v.a))
      [] v.t = "str" -> JNum(Len(v.s))
      [] OTHER -> JUndef

\* documents.ts: await coll.delete(id); return success({ deleted: true, _id: id, collection })
delete_document_try(args, settled) ==
    IF ~settled.ok THEN settled
    ELSE Resolved(JObj(<< Member("deleted", JBool(TRUE)),
                          Member("_id", JStr(args.id)),
                          Member("collection", JStr(args.collection)) >>))

\* documents.ts: const count = await coll.count(filter); return success({ collection, count })
count_documents_try(args, settled) ==
    IF ~settled.ok THEN settled
    ELSE Resolved(JObj(<< Member("collection", JStr(args.collection)),
                          Member("count", settled.v) >>))

\* collections.ts: const documents = Array.isArray(data) ? data : (data.data ?? []);
\*                 return success({ collection, count: documents.length, documents })
export_collection_try(args, settled) ==
    IF ~settled.ok THEN settled
    ELSE LET data == settled.v IN
         IF IsNullish(data)
         THEN Rejected(ErrorOf("Cannot read properties of null (reading 'data')"))
         ELSE LET documents ==
                      IF data.t = "arr" THEN data
                      ELSE IF IsNullish(Get(data, "data")) THEN JArr(<<>>)
                      ELSE Get(data, "data")
              IN Resolved(JObj(<< Member("collection", JStr(args.collection)),
                                  Member("count", LengthOf(documents)),
                                  Member("documents", documents) >>))

\* schemas.ts get_schema
get_schema_try(args, settled) ==
    IF ~settled.ok THEN settled
    ELSE IF settled.v = JNull
    THEN Resolved(JObj(<< Member("collection", JStr(args.collection)),
                          Member("schema", JNull),
                          Member("message", JStr("No schema is set for collection '"
                              \o args.collection \o "'. Any valid JSON document can be stored.")) >>))
    ELSE Resolved(JObj(<< Member("collection", JStr(args.collection)),
                          Member("schema", settled.v) >>))

\* schemas.ts set_schema
set_schema_try(args, settled) ==
    IF ~settled.ok THEN settled
    ELSE Resolved(JObj(<< Member("collection", JStr(args.collection)),
                          Member("schema", args.schema),
                          Member("message", JStr("Schema set successfully for collection '"
                              \o args.collection
                              \o "'. All new and updated documents will be validated against this schema.")) >>))

\* schemas.ts remove_schema
remove_schema_try(args, settled) ==
    IF ~settled.ok THEN settled
    ELSE Resolved(JObj(<< Member("collection", JStr(args.collection)),
                          Member("schema", JNull),
                          Member("message", JStr("Schema removed from collection '"
                              \o args.collection \o "'. Documents are no longer validated.")) >>))

\* schemas.ts validate_document: return success({ collection, ...result })
validate_document_try(args, settled) ==
    IF ~settled.ok THEN settled
    ELSE Resolved(Spread(JObj(<< Member("collection", JStr(args.collection)) >>), settled.v))

\* webhooks.ts: await webhookFetch(..., "DELETE"); return success({ deleted: true, webhookId, collection })
delete_webhook_try(args, settled) ==
    IF ~settled.ok THEN settled
    ELSE Resolved(JObj(<< Member("deleted", JBool(TRUE)),
                          Member("webhookId", JStr(args.webhookId)),
                          Member("collection", JStr(args.collection)) >>))


(***************************************************************************)
(* Faulty variants of some handlers: what each would be with a plausible   *)
(* slip in its catch block.                                                *)
(***************************************************************************)
\* export_collection without its try/catch: a failure leaves the handler
export_collection_uncaught(args, settled) ==
    LET r == export_collection_try(args, settled) IN
    IF r.ok THEN success(r.v) ELSE Thrown(r.err)

\* store_with_embedding with no status branches: every failure is generic
store_with_embedding_unclassified(args, settled) ==
    IF settled.ok THEN success(settled.v)
    ELSE error("STORE_EMBEDDING_FAILED",
               OrDefault(Get(settled.err, "message"), "Failed to store document with embedding"),
               "Verify the collection and document data.")

\* diff_versions with the codes of its two status branches exchanged
diff_versions_swapped(args, settled) ==
    IF settled.ok THEN success(settled.v)
    ELSE IF Get(settled.err, "status") = JNum(403)
    THEN error("VERSION_NOT_FOUND", JStr("Version diff is a Pro plan feature."), "Upgrade to Pro.")
    ELSE IF Get(settled.err, "status") = JNum(404)
    THEN error("PRO_FEATURE", JStr("One or both versions not found."), "Use list_versions.")
    ELSE error("DIFF_VERSIONS_FAILED",
               OrDefault(Get(settled.err, "message"), "Failed to diff versions"),
               "Verify the collection, document ID, and both version numbers are correct.")

\* json_patch_document with its 409 branch missing: a conflict falls through to
\* the generic code
json_patch_document_no_conflict(args, settled) ==
    IF settled.ok THEN success(settled.v)
    ELSE IF Get(settled.err, "status") = JNum(404)
    THEN error("DOCUMENT_NOT_FOUND", JStr("Document not found."), "Use list_documents.")
    ELSE IF Get(settled.err, "status") = JNum(400)
    THEN error("VALIDATION_ERROR",
               OrDefault(Get(settled.err, "message"), "The patched document failed schema validation."),
               "Use get_schema.")
    ELSE error("JSON_PATCH_FAILED",
               OrDefault(Get(settled.err, "message"), "Failed to apply JSON Patch"),
               "Verify the patch operations are valid RFC 6902.")
\* src/src/tools/documents.ts:51-85
create_document(args, settled) ==
    LET r == settled IN
    IF r.ok THEN success(r.v)
    ELSE LET e == r.err IN
         IF IsNullish(e) THEN Thrown(CatchTypeError) ELSE
         IF Get(e, "status") = JNum(409)
         THEN error("DOCUMENT_CONFLICT",
                    JStr("A document with this ID already exists in collection '" \o args.collection \o "'."),
                    "Use update_document to replace an existing document, or omit the 'id' parameter to auto-generate a unique ID.")
         ELSE
         IF Get(e, "status") = JNum(413)
         THEN error("DOCUMENT_TOO_LARGE",
                    JStr("The document exceeds the maximum allowed size."),
                    "Reduce the document size. Free plans allow up to 16 KB per document, Pro plans allow up to 1 MB.")
         ELSE
         IF Get(e, "status") = JNum(400)
         THEN error("VALIDATION_ERROR",
                    OrDefault(Get(e, "message"), "The document failed schema validation for collection '" \o args.collection \o "'."),
                    "Use get_schema({ collection: '" \o args.collection \o "' }) to see the required schema, then adjust your document to match.")
         ELSE
         error("CREATE_FAILED",
               OrDefault(Get(e, "message"), "Failed to create document"),
               "Check that the collection name '" \o args.collection \o "' is valid and the data is a valid JSON object.")

\* src/src/tools/documents.ts:96-116
get_document(args, settled) ==
    LET r == settled IN
    IF r.ok THEN success(r.v)
    ELSE LET e == r.err IN
         IF IsNullish(e) THEN Thrown(CatchTypeError) ELSE
         IF Get(e, "status") = JNum(404)
         THEN error("DOCUMENT_NOT_FOUND",
                    JStr("Document '" \o args.id \o "' not found in collection '" \o args.collection \o "'."),
                    "Use list_documents({ collection: '" \o args.collection \o "' }) to see available documents, or check that the ID is correct.")
         ELSE
         error("GET_FAILED",
               OrDefault(Get(e, "message"), "Failed to get document"),
               "Verify that the collection '" \o args.collection \o "' exists and the document ID '" \o args.id \o "' is correct.")

\* src/src/tools/documents.ts:144-163
list_documents(args, settled) ==
    LET r == settled IN
    IF r.ok THEN success(r.v)
    ELSE LET e == r.err IN
         IF IsNullish(e) THEN Thrown(CatchTypeError) ELSE
         error("LIST_FAILED",
               OrDefault(Get(e, "message"), "Failed to list documents in collection '" \o args.collection \o "'."),
               "Verify the collection name is correct. Use list_collections to see available collections.")

\* src/src/tools/documents.ts:177-204
update_document(args, settled) ==
    LET r == settled IN
    IF r.ok THEN success(r.v)
    ELSE LET e == r.err IN
         IF IsNullish(e) THEN Thrown(CatchTypeError) ELSE
         IF Get(e, "status") = JNum(404)
         THEN error("DOCUMENT_NOT_FOUND",
                    JStr("Document '" \o args.id \o "' not found in collection '" \o args.collection \o "'."),
                    "Use list_documents({ collection: '" \o args.collection \o "' }) to see available documents. To create a new document, use create_document instead.")
         ELSE
         IF Get(e, "status") = JNum(400)
         THEN error("VALIDATION_ERROR",
                    OrDefault(Get(e, "message"), "The document failed schema validation."),
                    "Use get_schema({ collection: '" \o args.collection \o "' }) to see the required schema, then adjust your document to match.")
         ELSE
         error("UPDATE_FAILED",
               OrDefault(Get(e, "message"), "Failed to update document"),
               "Verify that collection '" \o args.collection \o "' and document ID '" \o args.id \o "' are correct.")

\* src/src/tools/documents.ts:220-247
patch_document(args, settled) ==
    LET r == settled IN
    IF r.ok THEN success(r.v)
    ELSE LET e == r.err IN
         IF IsNullish(e) THEN Thrown(CatchTypeError) ELSE
         IF Get(e, "status") = JNum(404)
         THEN error("DOCUMENT_NOT_FOUND",
                    JStr("Document '" \o args.id \o "' not found in collection '" \o args.collection \o "'."),
                    "Use list_documents({ collection: '" \o args.collection \o "' }) to see available documents. To create a new document, use create_document instead.")
         ELSE
         IF Get(e, "status") = JNum(400)
         THEN error("VALIDATION_ERROR",
                    OrDefault(Get(e, "message"), "The patched document failed schema validation."),
                    "Use get_schema({ collection: '" \o args.collection \o "' }) to see the required schema. Ensure the patched result conforms to it.")
         ELSE
         error("PATCH_FAILED",
               OrDefault(Get(e, "message"), "Failed to patch document"),
               "Verify that collection '" \o args.collection \o "' and document ID '" \o args.id \o "' are correct.")

\* src/src/tools/documents.ts:258-282
delete_document(args, settled) ==
    LET r == delete_document_try(args, settled) IN
    IF r.ok THEN success(r.v)
    ELSE LET e == r.err IN
         IF IsNullish(e) THEN Thrown(CatchTypeError) ELSE
         IF Get(e, "status") = JNum(404)
         THEN error("DOCUMENT_NOT_FOUND",
                    JStr("Document '" \o args.id \o "' not found in collection '" \o args.collection \o "'."),
                    "The document may have already been deleted. Use list_documents({ collection: '" \o args.collection \o "' }) to see current documents.")
         ELSE
         error("DELETE_FAILED",
               OrDefault(Get(e, "message"), "Failed to delete document"),
               "Verify that collection '" \o args.collection \o "' and document ID '" \o args.id \o "' are correct.")

\* src/src/tools/documents.ts:298-311
count_documents(args, settled) ==
    LET r == count_documents_try(args, settled) IN
    IF r.ok THEN success(r.v)
    ELSE LET e == r.err IN
         IF IsNullish(e) THEN Thrown(CatchTypeError) ELSE
         error("COUNT_FAILED",
               OrDefault(Get(e, "message"), "Failed to count documents in collection '" \o args.collection \o "'."),
               "Verify the collection name is correct. Use list_collections to see available collections.")

\* src/src/tools/documents.ts:334-368
json_patch_document(args, settled) ==
    LET r == settled IN
    IF r.ok THEN success(r.v)
    ELSE LET e == r.err IN
         IF IsNullish(e) THEN Thrown(CatchTypeError) ELSE
         IF Get(e, "status") = JNum(404)
         THEN error("DOCUMENT_NOT_FOUND",
                    JStr("Document '" \o args.id \o "' not found in collection '" \o args.collection \o "'."),
                    "Use list_documents({ collection: '" \o args.collection \o "' }) to see available documents.")
         ELSE
         IF Get(e, "status") = JNum(409)
         THEN error("PATCH_CONFLICT",
                    OrDefault(Get(e, "message"), "A 'test' operation failed or a path conflict occurred."),
                    "Review the patch operations. A 'test' op asserts a value must match before applying changes.")
         ELSE
         IF Get(e, "status") = JNum(400)
         THEN error("VALIDATION_ERROR",
                    OrDefault(Get(e, "message"), "The patched document failed schema validation."),
                    "Use get_schema({ collection: '" \o args.collection \o "' }) to review the required schema.")
         ELSE
         error("JSON_PATCH_FAILED",
               OrDefault(Get(e, "message"), "Failed to apply JSON Patch"),
               "Verify the patch operations are valid RFC 6902. Paths must use JSON Pointer format (e.g., '/field', '/nested/key').")

\* src/src/tools/collections.ts:83-124
list_collections(args, settled) ==
    LET r == settled IN
    IF r.ok THEN success(r.v)
    ELSE LET e == r.err IN
         IF IsNullish(e) THEN Thrown(CatchTypeError) ELSE
         error("LIST_COLLECTIONS_FAILED",
               OrDefault(Get(e, "message"), "Failed to list collections."),
               "Verify that the JSONDB_API_KEY and JSONDB_PROJECT environment variables are set correctly.")

\* src/src/tools/collections.ts:151-170
search_documents(args, settled) ==
    LET r == settled IN
    IF r.ok THEN success(r.v)
    ELSE LET e == r.err IN
         IF IsNullish(e) THEN Thrown(CatchTypeError) ELSE
         error("SEARCH_FAILED",
               OrDefault(Get(e, "message"), "Failed to search documents in collection '" \o args.collection \o "'."),
               "Verify the collection name and filter syntax. Available operators: eq, neq, gt, gte, lt, lte, contains, in. Use list_collections to see available collections.")

\* src/src/tools/collections.ts:193-251
import_documents(args, settled) ==
    LET r == settled IN
    IF r.ok THEN success(r.v)
    ELSE LET e == r.err IN
         IF IsNullish(e) THEN Thrown(CatchTypeError) ELSE
         IF Get(e, "status") = JNum(413)
         THEN error("IMPORT_TOO_LARGE",
                    JStr("The import payload exceeds the maximum allowed size."),
                    "Free plans support up to 1,000 documents (5 MB). Pro plans support up to 10,000 documents (50 MB). Try importing in smaller batches.")
         ELSE
         IF Get(e, "status") = JNum(409)
         THEN error("IMPORT_CONFLICT",
                    OrDefault(Get(e, "message"), "One or more documents conflict with existing IDs."),
                    "Use onConflict: 'skip' to ignore duplicates or 'overwrite' to replace existing documents.")
         ELSE
         error("IMPORT_FAILED",
               OrDefault(Get(e, "message"), "Failed to import documents into collection '" \o args.collection \o "'."),
               "Verify each document is a valid JSON object. Check the import limits for your plan.")

\* src/src/tools/collections.ts:267-328
export_collection(args, settled) ==
    LET r == export_collection_try(args, settled) IN
    IF r.ok THEN success(r.v)
    ELSE LET e == r.err IN
         IF IsNullish(e) THEN Thrown(CatchTypeError) ELSE
         IF Get(e, "status") = JNum(403)
         THEN error("EXPORT_LIMIT_EXCEEDED",
                    JStr("Export limit exceeded for your plan."),
                    "Free plans support up to 1,000 documents per export. Upgrade to Pro for up to 100,000.")
         ELSE
         error("EXPORT_FAILED",
               OrDefault(Get(e, "message"), "Failed to export collection '" \o args.collection \o "'."),
               "Verify the collection name is correct. Use list_collections to see available collections.")

\* src/unnamed/part_003:46-66
get_schema(args, settled) ==
    LET r == get_schema_try(args, settled) IN
    IF r.ok THEN success(r.v)
    ELSE LET e == r.err IN
         IF IsNullish(e) THEN Thrown(CatchTypeError) ELSE
         error("GET_SCHEMA_FAILED",
               OrDefault(Get(e, "message"), "Failed to get schema for collection '" \o args.collection \o "'."),
               "Verify the collection name is correct. Use list_collections to see available collections.")

\* src/unnamed/part_003:83-107
set_schema(args, settled) ==
    LET r == set_schema_try(args, settled) IN
    IF r.ok THEN success(r.v)
    ELSE LET e == r.err IN
         IF IsNullish(e) THEN Thrown(CatchTypeError) ELSE
         IF Get(e, "status") = JNum(400)
         THEN error("INVALID_SCHEMA",
                    OrDefault(Get(e, "message"), "The provided schema is not a valid JSON Schema."),
                    "Ensure the schema follows JSON Schema format. The top-level 'type' should typically be 'object'. Example: { type: 'object', properties: { name: { type: 'string' } }, required: ['name'] }")
         ELSE
         error("SET_SCHEMA_FAILED",
               OrDefault(Get(e, "message"), "Failed to set schema for collection '" \o args.collection \o "'."),
               "Verify the collection name and ensure the schema is valid JSON Schema format.")

\* src/unnamed/part_003:119-143
remove_schema(args, settled) ==
    LET r == remove_schema_try(args, settled) IN
    IF r.ok THEN success(r.v)
    ELSE LET e == r.err IN
         IF IsNullish(e) THEN Thrown(CatchTypeError) ELSE
         IF Get(e, "status") = JNum(404)
         THEN error("SCHEMA_NOT_FOUND",
                    JStr("No schema is set for collection '" \o args.collection \o "'."),
                    "Use get_schema({ collection: '" \o args.collection \o "' }) to check whether a schema exists.")
         ELSE
         error("REMOVE_SCHEMA_FAILED",
               OrDefault(Get(e, "message"), "Failed to remove schema from collection '" \o args.collection \o "'."),
               "Verify the collection name is correct. Use list_collections to see available collections.")

\* src/unnamed/part_003:158-178
validate_document(args, settled) ==
    LET r == validate_document_try(args, settled) IN
    IF r.ok THEN success(r.v)
    ELSE LET e == r.err IN
         IF IsNullish(e) THEN Thrown(CatchTypeError) ELSE
         IF Get(e, "status") = JNum(404)
         THEN error("SCHEMA_NOT_FOUND",
                    JStr("No schema is set for collection '" \o args.collection \o "'."),
                    "Use set_schema to add a schema first, or use create_document directly if no validation is needed.")
         ELSE
         error("VALIDATE_FAILED",
               OrDefault(Get(e, "message"), "Failed to validate document against collection '" \o args.collection \o "' schema."),
               "Verify the collection name is correct and the data is a valid JSON object.")

\* src/src/tools/versions.ts:74-97
list_versions(args, settled) ==
    LET r == settled IN
    IF r.ok THEN success(r.v)
    ELSE LET e == r.err IN
         IF IsNullish(e) THEN Thrown(CatchTypeError) ELSE
         IF Get(e, "status") = JNum(404)
         THEN error("DOCUMENT_NOT_FOUND",
                    JStr("Document '" \o args.id \o "' not found in collection '" \o args.collection \o "'."),
                    "Use list_documents({ collection: '" \o args.collection \o "' }) to see available documents.")
         ELSE
         error("LIST_VERSIONS_FAILED",
               OrDefault(Get(e, "message"), "Failed to list versions for document '" \o args.id \o "'."),
               "Verify the collection and document ID are correct.")

\* src/src/tools/versions.ts:113-136
get_version(args, settled) ==
    LET r == settled IN
    IF r.ok THEN success(r.v)
    ELSE LET e == r.err IN
         IF IsNullish(e) THEN Thrown(CatchTypeError) ELSE
         IF Get(e, "status") = JNum(404)
         THEN error("VERSION_NOT_FOUND",
                    JStr("Version " \o ToString(args.version) \o " of document '" \o args.id \o "' not found in collection '" \o args.collection \o "'."),
                    "Use list_versions({ collection: '" \o args.collection \o "', id: '" \o args.id \o "' }) to see available versions.")
         ELSE
         error("GET_VERSION_FAILED",
               OrDefault(Get(e, "message"), "Failed to get version " \o ToString(args.version) \o " of document '" \o args.id \o "'."),
               "Verify the collection, document ID, and version number are correct.")

\* src/src/tools/versions.ts:152-183
restore_version(args, settled) ==
    LET r == settled IN
    IF r.ok THEN success(r.v)
    ELSE LET e == r.err IN
         IF IsNullish(e) THEN Thrown(CatchTypeError) ELSE
         IF Get(e, "status") = JNum(404)
         THEN error("VERSION_NOT_FOUND",
                    JStr("Version " \o ToString(args.version) \o " of document '" \o args.id \o "' not found in collection '" \o args.collection \o "'."),
                    "Use list_versions({ collection: '" \o args.collection \o "', id: '" \o args.id \o "' }) to see available versions.")
         ELSE
         IF Get(e, "status") = JNum(400)
         THEN error("VALIDATION_ERROR",
                    OrDefault(Get(e, "message"), "The restored document failed schema validation."),
                    "The historical version may not match the current schema. Use get_schema({ collection: '" \o args.collection \o "' }) to review.")
         ELSE
         error("RESTORE_VERSION_FAILED",
               OrDefault(Get(e, "message"), "Failed to restore document '" \o args.id \o "' to version " \o ToString(args.version) \o "."),
               "Verify the collection, document ID, and version number are correct.")

\* src/src/tools/versions.ts:204-238
diff_versions(args, settled) ==
    LET r == settled IN
    IF r.ok THEN success(r.v)
    ELSE LET e == r.err IN
         IF IsNullish(e) THEN Thrown(CatchTypeError) ELSE
         IF Get(e, "status") = JNum(403)
         THEN error("PRO_FEATURE",
                    JStr("Version diff is a Pro plan feature."),
                    "Upgrade to Pro at https://jsondb.cloud/dashboard/billing to enable version diffs.")
         ELSE
         IF Get(e, "status") = JNum(404)
         THEN error("VERSION_NOT_FOUND",
                    JStr("One or both versions (" \o ToString(args.from) \o ", " \o ToString(args.to) \o ") not found for document '" \o args.id \o "'."),
                    "Use list_versions({ collection: '" \o args.collection \o "', id: '" \o args.id \o "' }) to see available version numbers.")
         ELSE
         error("DIFF_VERSIONS_FAILED",
               OrDefault(Get(e, "message"), "Failed to diff versions " \o ToString(args.from) \o " and " \o ToString(args.to) \o " of document '" \o args.id \o "'."),
               "Verify the collection, document ID, and both version numbers are correct.")

\* src/src/tools/webhooks.ts:83-108
create_webhook(args, settled) ==
    LET r == settled IN
    IF r.ok THEN success(r.v)
    ELSE LET e == r.err IN
         IF IsNullish(e) THEN Thrown(CatchTypeError) ELSE
         IF Get(e, "status") = JNum(403)
         THEN error("WEBHOOK_LIMIT",
                    OrDefault(Get(e, "message"), "Webhook limit reached for this collection or plan."),
                    "Free plans allow 3 total webhooks (1 per collection). Pro plans allow 50 total (10 per collection). Delete unused webhooks or upgrade.")
         ELSE
         error("CREATE_WEBHOOK_FAILED",
               OrDefault(Get(e, "message"), "Failed to create webhook for collection '" \o args.collection \o "'."),
               "Verify the URL is reachable HTTPS and the event names are valid.")

\* src/src/tools/webhooks.ts:118-131
list_webhooks(args, settled) ==
    LET r == settled IN
    IF r.ok THEN success(r.v)
    ELSE LET e == r.err IN
         IF IsNullish(e) THEN Thrown(CatchTypeError) ELSE
         error("LIST_WEBHOOKS_FAILED",
               OrDefault(Get(e, "message"), "Failed to list webhooks for collection '" \o args.collection \o "'."),
               "Verify the collection name is correct. Use list_collections to see available collections.")

\* src/src/tools/webhooks.ts:142-165
get_webhook(args, settled) ==
    LET r == settled IN
    IF r.ok THEN success(r.v)
    ELSE LET e == r.err IN
         IF IsNullish(e) THEN Thrown(CatchTypeError) ELSE
         IF Get(e, "status") = JNum(404)
         THEN error("WEBHOOK_NOT_FOUND",
                    JStr("Webhook '" \o args.webhookId \o "' not found in collection '" \o args.collection \o "'."),
                    "Use list_webhooks({ collection: '" \o args.collection \o "' }) to see available webhooks.")
         ELSE
         error("GET_WEBHOOK_FAILED",
               OrDefault(Get(e, "message"), "Failed to get webhook '" \o args.webhookId \o "'."),
               "Verify the collection name and webhook ID are correct.")

\* src/src/tools/webhooks.ts:186-224
update_webhook(args, settled) ==
    LET r == settled IN
    IF r.ok THEN success(r.v)
    ELSE LET e == r.err IN
         IF IsNullish(e) THEN Thrown(CatchTypeError) ELSE
         IF Get(e, "status") = JNum(404)
         THEN error("WEBHOOK_NOT_FOUND",
                    JStr("Webhook '" \o args.webhookId \o "' not found in collection '" \o args.collection \o "'."),
                    "Use list_webhooks({ collection: '" \o args.collection \o "' }) to see available webhooks.")
         ELSE
         error("UPDATE_WEBHOOK_FAILED",
               OrDefault(Get(e, "message"), "Failed to update webhook '" \o args.webhookId \o "'."),
               "Verify the collection name and webhook ID are correct.")

\* src/src/tools/webhooks.ts:235-259
delete_webhook(args, settled) ==
    LET r == delete_webhook_try(args, settled) IN
    IF r.ok THEN success(r.v)
    ELSE LET e == r.err IN
         IF IsNullish(e) THEN Thrown(CatchTypeError) ELSE
         IF Get(e, "status") = JNum(404)
         THEN error("WEBHOOK_NOT_FOUND",
                    JStr("Webhook '" \o args.webhookId \o "' not found in collection '" \o args.collection \o "'."),
                    "Use list_webhooks({ collection: '" \o args.collection \o "' }) to see available webhooks.")
         ELSE
         error("DELETE_WEBHOOK_FAILED",
               OrDefault(Get(e, "message"), "Failed to delete webhook '" \o args.webhookId \o "'."),
               "Verify the collection name and webhook ID are correct.")

\* src/src/tools/webhooks.ts:270-294
test_webhook(args, settled) ==
    LET r == settled IN
    IF r.ok THEN success(r.v)
    ELSE LET e == r.err IN
         IF IsNullish(e) THEN Thrown(CatchTypeError) ELSE
         IF Get(e, "status") = JNum(404)
         THEN error("WEBHOOK_NOT_FOUND",
                    JStr("Webhook '" \o args.webhookId \o "' not found in collection '" \o args.collection \o "'."),
                    "Use list_webhooks({ collection: '" \o args.collection \o "' }) to see available webhooks.")
         ELSE
         error("TEST_WEBHOOK_FAILED",
               OrDefault(Get(e, "message"), "Failed to send test event to webhook '" \o args.webhookId \o "'."),
               "Verify the webhook URL is reachable and responding with a 2xx status.")

\* src/unnamed/part_002:27-71
semantic_search(args, settled) ==
    LET r == settled IN
    IF r.ok THEN success(r.v)
    ELSE LET e == r.err IN
         IF IsNullish(e) THEN Thrown(CatchTypeError) ELSE
         IF Get(e, "status") = JNum(404)
         THEN error("COLLECTION_NOT_FOUND",
                    JStr("Collection '" \o args.collection \o "' not found or has no embeddings."),
                    "Ensure the collection exists and documents were stored with store_with_embedding. Use list_collections to see available collections.")
         ELSE
         IF Get(e, "status") = JNum(400)
         THEN error("INVALID_SEARCH",
                    OrDefault(Get(e, "message"), "Invalid search request for collection '" \o args.collection \o "'."),
                    "Check that the query is a non-empty string and threshold is between 0 and 1.")
         ELSE
         IF Get(e, "status") = JNum(403)
         THEN error("SEARCH_NOT_AVAILABLE",
                    OrDefault(Get(e, "message"), "Semantic search is not available on your current plan."),
                    "Upgrade your plan at https://jsondb.cloud/dashboard/billing to enable vector search.")
         ELSE
         error("SEARCH_FAILED",
               OrDefault(Get(e, "message"), "Failed to search collection '" \o args.collection \o "'."),
               "Verify the collection name and that documents have been stored with embeddings.")

\* src/unnamed/part_002:84-130
store_with_embedding(args, settled) ==
    LET r == settled IN
    IF r.ok THEN success(r.v)
    ELSE LET e == r.err IN
         IF IsNullish(e) THEN Thrown(CatchTypeError) ELSE
         IF Get(e, "status") = JNum(400)
         THEN error("VALIDATION_ERROR",
                    OrDefault(Get(e, "message"), "The document failed validation for collection '" \o args.collection \o "'."),
                    "Ensure the embed_field '" \o args.embed_field \o "' exists in your data and contains text content suitable for embedding.")
         ELSE
         IF Get(e, "status") = JNum(413)
         THEN error("DOCUMENT_TOO_LARGE",
                    JStr("The document exceeds the maximum allowed size."),
                    "Reduce the document size. Free plans allow up to 16 KB per document, Pro plans allow up to 1 MB.")
         ELSE
         IF Get(e, "status") = JNum(403)
         THEN error("EMBEDDING_NOT_AVAILABLE",
                    OrDefault(Get(e, "message"), "Embedding generation is not available on your current plan."),
                    "Upgrade your plan at https://jsondb.cloud/dashboard/billing to enable automatic embeddings.")
         ELSE
         error("STORE_EMBEDDING_FAILED",
               OrDefault(Get(e, "message"), "Failed to store document with embedding in collection '" \o args.collection \o "'."),
               "Check that the collection name is valid, the data is a valid JSON object, and the embed_field references an existing text field.")

(***************************************************************************)
(* The filter compiler, collections.ts buildFilterObject.  A FilterSpec is *)
(* a sequence of [field, operator, value] records.                         *)
(***************************************************************************)
\* the own properties of opMap
OpMapKeys == {"eq", "neq", "gt", "gte", "lt", "lte", "contains", "in", "exists"}

\* the methods every object literal inherits from Object.prototype
ObjectPrototypeMethods ==
    {"constructor", "toString", "toLocaleString", "valueOf", "hasOwnProperty",
     "isPrototypeOf", "propertyIsEnumerable"}

\* a built-in function value
JFunc(name) == [t |-> "func", name |-> name]

\* opMap[op]: opMap is an object literal, so the lookup also finds what
\* Object.prototype provides: its methods, and itself under "__proto__"
OpMapGet(op) ==
    CASE op \in OpMapKeys -> JStr("$" \o op)
      [] op = "constructor" -> JFunc("Object")
      [] op \in ObjectPrototypeMethods -> JFunc(op)
      [] op = "__proto__" -> JObj(<<>>)
      [] OTHER -> JUndef

\* the property key a computed key `[k]` becomes: String(k)
PropertyKey(k) ==
    CASE k.t = "str" -> k.s
      [] k.t = "func" -> "function " \o k.name \o "() { [native code] }"
      [] OTHER -> "[object Object]"

\* filterObj[field] = val, on the own properties of filterObj: assigning to
\* "__proto__" sets (or does not set) the prototype and creates no property
Assign(o, field, val) ==
    IF field = "__proto__" THEN o ELSE PutMember(o, field, val, 1)

\* one iteration of the loop over the filters
CompileEntry(f) ==
    IF f.operator = "eq" THEN f.value
    ELSE LET sdkOp == OpMapGet(f.operator) IN
         IF Truthy(sdkOp) THEN JObj(<< <<PropertyKey(sdkOp), f.value>> >>)
         ELSE f.value

RECURSIVE buildFilterMembers(_, _, _)
buildFilterMembers(filters, i, o) ==
    IF i > Len(filters) THEN o
    ELSE buildFilterMembers(filters, i + 1,
                            Assign(o, filters[i].field, CompileEntry(filters[i])))

buildFilterObject(filters) == JObj(buildFilterMembers(filters, 1, <<>>))
(***************************************************************************)
(* The operation catalog: the names bound by the register*Tools functions, *)
(* and what each handler awaits.                                           *)
(***************************************************************************)
\* the names each register*Tools function binds, in the order of its
\* server.tool(...) calls
DocumentToolNames ==
    << "create_document", "get_document", "list_documents", "update_document",
       "patch_document", "delete_document", "count_documents",
       "json_patch_document" >>
CollectionToolNames ==
    << "list_collections", "search_documents", "import_documents",
       "export_collection" >>
SchemaToolNames ==
    << "get_schema", "set_schema", "remove_schema", "validate_document" >>
VersionToolNames ==
    << "list_versions", "get_version", "restore_version", "diff_versions" >>
WebhookToolNames ==
    << "create_webhook", "list_webhooks", "get_webhook", "update_webhook",
       "delete_webhook", "test_webhook" >>
VectorToolNames ==
    << "semantic_search", "store_with_embedding" >>

NamesIn(names) == { names[i] : i \in 1..Len(names) }

DocumentTools == NamesIn(DocumentToolNames)
CollectionTools == NamesIn(CollectionToolNames)
SchemaTools == NamesIn(SchemaToolNames)
VersionTools == NamesIn(VersionToolNames)
WebhookTools == NamesIn(WebhookToolNames)
VectorTools == NamesIn(VectorToolNames)

Handlers ==
    DocumentTools \cup CollectionTools \cup SchemaTools \cup VersionTools
        \cup WebhookTools \cup VectorTools

\* handlers whose backing call is a method of the SDK collection object
SdkHandlers == DocumentTools \cup SchemaTools \cup {"search_documents"}
\* handlers of collections.ts that call fetch() themselves
InlineFetchHandlers == CollectionTools \ {"search_documents"}

\* how the awaited backing call of handler h ends, given what the SDK method
\* (raw: a settled promise) or fetch() (raw: a network failure or a Response) did
Settle(h, raw) ==
    CASE h \in SdkHandlers -> raw
      [] h \in InlineFetchHandlers -> inlineFetch(raw)
      [] h \in VersionTools -> versionFetch(raw)
      [] h \in WebhookTools -> webhookFetch(raw)
      [] h \in VectorTools -> apiFetch(raw)

\* the handler registered under name h
Handle(h, args, settled) ==
    CASE h = "create_document" -> create_document(args, settled)
      [] h = "get_document" -> get_document(args, settled)
      [] h = "list_documents" -> list_documents(args, settled)
      [] h = "update_document" -> update_document(args, settled)
      [] h = "patch_document" -> patch_document(args, settled)
      [] h = "delete_document" -> delete_document(args, settled)
      [] h = "count_documents" -> count_documents(args, settled)
      [] h = "json_patch_document" -> json_patch_document(args, settled)
      [] h = "list_collections" -> list_collections(args, settled)
      [] h = "search_documents" -> search_documents(args, settled)
      [] h = "import_documents" -> import_documents(args, settled)
      [] h = "export_collection" -> export_collection(args, settled)
      [] h = "get_schema" -> get_schema(args, settled)
      [] h = "set_schema" -> set_schema(args, settled)
      [] h = "remove_schema" -> remove_schema(args, settled)
      [] h = "validate_document" -> validate_document(args, settled)
      [] h = "list_versions" -> list_versions(args, settled)
      [] h = "get_version" -> get_version(args, settled)
      [] h = "restore_version" -> restore_version(args, settled)
      [] h = "diff_versions" -> diff_versions(args, settled)
      [] h = "create_webhook" -> create_webhook(args, settled)
      [] h = "list_webhooks" -> list_webhooks(args, settled)
      [] h = "get_webhook" -> get_webhook(args, settled)
      [] h = "update_webhook" -> update_webhook(args, settled)
      [] h = "delete_webhook" -> delete_webhook(args, settled)
      [] h = "test_webhook" -> test_webhook(args, settled)
      [] h = "semantic_search" -> semantic_search(args, settled)
      [] h = "store_with_embedding" -> store_with_embedding(args, settled)


(***************************************************************************)
(* Credentials/Context and outbound calls.  main() resolves the context    *)
(* once and hands it to the SDK client; the handlers that call the REST    *)
(* API themselves resolve it again, from process.env, on every call.       *)
(***************************************************************************)
DefaultBaseUrl == JText(<<"https://api.jsondb.cloud">>)
DefaultProject == JStr("v1")

\* x || y
Or(x, y) == IF Truthy(x) THEN x ELSE y

\* process.env.JSONDB_PROJECT || process.env.JSONDB_NAMESPACE || "v1"
ProjectOf(e) == Or(e.project, Or(e.namespace, DefaultProject))

\* index.ts: new JsonDB({ apiKey, project, baseUrl })
NewJsonDB(e) ==
    [created |-> TRUE,
     config |-> [apiKey |-> e.apiKey,
                 project |-> ProjectOf(e),
                 baseUrl |-> Or(e.baseUrl, DefaultBaseUrl)]]

\* u.replace(/\/$/, "")
StripTrailingSlash(u) ==
    IF u.k # <<>> /\ u.k[Len(u.k)] = "/"
    THEN JText(SubSeq(u.k, 1, Len(u.k) - 1))
    ELSE u

\* resolveEnv(), and the same three lines written out in collections.ts
resolveEnv(e) ==
    [apiKey |-> Or(e.apiKey, JStr("")),
     project |-> ProjectOf(e),
     baseUrl |-> StripTrailingSlash(Or(e.baseUrl, DefaultBaseUrl))]

\* `${baseUrl}/${project}/...`: the URL as segments
UrlOf(ctx, segments) == ctx.baseUrl.k \o <<"/", ctx.project.s>> \o segments

\* headers: { Authorization: `Bearer ${apiKey}`, "Content-Type": "application/json" }
JsonHeaders(apiKey) ==
    [Authorization |-> "Bearer " \o apiKey.s, ContentType |-> "application/json"]

\* fetch(url, opts)
FetchCall(url, opts) == [via |-> "fetch", url |-> url, opts |-> opts]

\* db.collection(name).method(...params)
SdkCall(database, collection, method, params) ==
    [via |-> "sdk", config |-> database.config, collection |-> collection,
     method |-> method, params |-> params]

\* the three methods that carry a body
BodyMethods == {"POST", "PUT", "PATCH"}

\* _helpers.ts apiFetch, up to `fetch(url, opts)`
apiFetchCall(url, apiKey, method, body) ==
    LET opts == [method |-> method, headers |-> JsonHeaders(apiKey)] IN
    IF body # JUndef /\ method \in BodyMethods
    THEN FetchCall(url, opts @@ [body |-> Stringify(body)])
    ELSE FetchCall(url, opts)

\* webhooks.ts webhookFetch, up to `fetch(url, opts)`
webhookFetchCall(url, apiKey, method, body) ==
    LET opts == [method |-> method, headers |-> JsonHeaders(apiKey)] IN
    IF body # JUndef /\ method \in BodyMethods
    THEN FetchCall(url, opts @@ [body |-> Stringify(body)])
    ELSE FetchCall(url, opts)

\* versionFetch's default for opts: {}
NoOpts == [k \in {} |-> k]

\* versions.ts versionFetch, up to `fetch(url, {...opts, headers})`; opts is
\* {} or { method: "POST" } at every call site
versionFetchCall(url, apiKey, opts) ==
    FetchCall(url, opts @@ [headers |-> JsonHeaders(apiKey)])

\* URLSearchParams: params.set(key, value) for each pair, then toString()
QueryString(pairs) ==
    IF pairs = <<>> THEN <<>>
    ELSE <<"?">> \o [i \in 1..Len(pairs) |->
                        IF i = 1 THEN pairs[i][1] \o "=" \o pairs[i][2]
                        ELSE "&" \o pairs[i][1] \o "=" \o pairs[i][2]]

\* a variant of the import parameters that always names a conflict mode
ImportParamsWithDefault(args) ==
    <<<<"onConflict", IF Truthy(args.onConflict) THEN args.onConflict.s ELSE "fail">>>>
    \o (IF Truthy(args.idField) THEN <<<<"idField", args.idField.s>>>> ELSE <<>>)

\* import_documents: if (onConflict) params.set(...); if (idField) params.set(...)
ImportParams(args) ==
    (IF Truthy(args.onConflict) THEN <<<<"onConflict", args.onConflict.s>>>> ELSE <<>>)
    \o (IF Truthy(args.idField) THEN <<<<"idField", args.idField.s>>>> ELSE <<>>)

\* String(v)
RECURSIVE StringOf(_), JoinStrings(_, _)
StringOf(v) ==
    CASE v.t = "str" -> v.s
      [] v.t = "num" -> ToString(v.n)
      [] v.t = "bool" -> (IF v.b THEN "true" ELSE "false")
      [] v.t = "null" -> "null"
      [] v.t = "undef" -> "undefined"
      [] v.t = "arr" -> JoinStrings(v.a, 1)
      [] OTHER -> "[object Object]"

\* Array.prototype.join(","): null and undefined elements give ""
JoinStrings(a, i) ==
    IF i > Len(a) THEN ""
    ELSE (IF i > 1 THEN "," ELSE "")
         \o (IF IsNullish(a[i]) THEN "" ELSE StringOf(a[i]))
         \o JoinStrings(a, i + 1)

\* op.replace(/^\$/, ""), for the operator names the SDK filter format has
\* and for names that do not start with "$"
CleanOp(op) ==
    CASE op = "$eq" -> "eq" [] op = "$neq" -> "neq" [] op = "$gt" -> "gt"
      [] op = "$gte" -> "gte" [] op = "$lt" -> "lt" [] op = "$lte" -> "lte"
      [] op = "$contains" -> "contains" [] op = "$in" -> "in"
      [] op = "$exists" -> "exists"
      [] OTHER -> op

\* Object.entries(value) of an object or an array
EntriesOf(v) == IF v.t = "arr" THEN IndexMembers(v.a, 1) ELSE v.o

\* params.set(key, val): replaces the value of an existing key in place
RECURSIVE SetParam(_, _, _, _)
SetParam(pairs, key, val, i) ==
    IF i > Len(pairs) THEN Append(pairs, <<key, val>>)
    ELSE IF pairs[i][1] = key THEN [pairs EXCEPT ![i] = <<key, val>>]
    ELSE SetParam(pairs, key, val, i + 1)

\* export_collection: the loops that turn the filter into query parameters
RECURSIVE ExportOpParams(_, _, _, _), ExportFilterParams(_, _, _)
ExportOpParams(field, ops, j, pairs) ==
    IF j > Len(ops) THEN pairs
    ELSE ExportOpParams(field, ops, j + 1,
             SetParam(pairs, "filter[" \o field \o "][" \o CleanOp(ops[j][1]) \o "]",
                      StringOf(ops[j][2]), 1))

ExportFilterParams(entries, i, pairs) ==
    IF i > Len(entries) THEN pairs
    ELSE LET field == entries[i][1]
             value == entries[i][2]
         IN ExportFilterParams(entries, i + 1,
                IF value.t \in {"obj", "arr"}
                THEN ExportOpParams(field, EntriesOf(value), 1, pairs)
                ELSE SetParam(pairs, "filter[" \o field \o "]", StringOf(value), 1))

ExportParams(args) ==
    IF ~Truthy(args.filter) THEN <<>>
    ELSE ExportFilterParams(EntriesOf(args.filter), 1, <<>>)

\* a variant of the payload in which the caller's own $embed key wins
EmbedPayloadCallerWins(data, embed_field) ==
    Spread(JObj(<< <<"$embed", JStr(embed_field)>> >>), data)

\* store_with_embedding: const payload = { ...data, $embed: embed_field }
EmbedPayload(data, embed_field) ==
    JObj(PutMember(Spread(JObj(<<>>), data).o, "$embed", JStr(embed_field), 1))

\* a variant of the update body that leaves out empty values as well
UpdateWebhookBodyTruthy(args) ==
    JObj(SelectSeq(<< <<"url", args.url>>, <<"events", args.events>>,
                      <<"description", args.description>>, <<"status", args.status>> >>,
                   LAMBDA m : Truthy(m[2])))

\* update_webhook: body = {}, then `if (x !== undefined) body.x = x` for url,
\* events, description and status
UpdateWebhookBody(args) ==
    JObj(SelectSeq(<< <<"url", args.url>>, <<"events", args.events>>,
                      <<"description", args.description>>, <<"status", args.status>> >>,
                   LAMBDA m : m[2] # JUndef))

\* the outbound calls handler h issues before its await, in order
OutboundCalls(h, args, e, database) ==
    LET ctx == resolveEnv(e) IN
    CASE h = "create_document" ->
            <<SdkCall(database, args.collection, "create",
                      <<args.data, IF args.id # "" THEN JObj(<< <<"id", JStr(args.id)>> >>)
                                   ELSE JUndef>>)>>
      [] h = "get_document" -> <<SdkCall(database, args.collection, "get", <<JStr(args.id)>>)>>
      [] h = "list_documents" ->
            <<SdkCall(database, args.collection, "list",
                      <<JObj(<< <<"filter", args.filter>>, <<"sort", args.sort>>,
                                <<"limit", args.limit>>, <<"offset", args.offset>>,
                                <<"select", args.select>> >>)>>)>>
      [] h = "update_document" ->
            <<SdkCall(database, args.collection, "update", <<JStr(args.id), args.data>>)>>
      [] h = "patch_document" ->
            <<SdkCall(database, args.collection, "patch", <<JStr(args.id), args.data>>)>>
      [] h = "delete_document" ->
            <<SdkCall(database, args.collection, "delete", <<JStr(args.id)>>)>>
      [] h = "count_documents" ->
            <<SdkCall(database, args.collection, "count", <<args.filter>>)>>
      [] h = "json_patch_document" ->
            <<SdkCall(database, args.collection, "jsonPatch", <<JStr(args.id), args.operations>>)>>
      [] h = "list_collections" ->
            <<FetchCall(UrlOf(ctx, <<>>), [headers |-> JsonHeaders(ctx.apiKey)])>>
      [] h = "search_documents" ->
            <<SdkCall(database, args.collection, "list",
                      <<JObj(<< <<"filter", buildFilterObject(args.filters)>>,
                                <<"sort", args.sort>>, <<"limit", args.limit>>,
                                <<"offset", args.offset>> >>)>>)>>
      [] h = "import_documents" ->
            <<FetchCall(UrlOf(ctx, <<"/", args.collection, "/", "_import">>)
                            \o QueryString(ImportParams(args)),
                        [method |-> "POST", headers |-> JsonHeaders(ctx.apiKey),
                         body |-> Stringify(args.documents)])>>
      [] h = "export_collection" ->
            <<FetchCall(UrlOf(ctx, <<"/", args.collection, "/", "_export">>)
                            \o QueryString(ExportParams(args)),
                        [headers |-> [Authorization |-> "Bearer " \o ctx.apiKey.s,
                                      Accept |-> "application/json"]])>>
      [] h = "get_schema" -> <<SdkCall(database, args.collection, "getSchema", <<>>)>>
      [] h = "set_schema" -> <<SdkCall(database, args.collection, "setSchema", <<args.schema>>)>>
      [] h = "remove_schema" -> <<SdkCall(database, args.collection, "removeSchema", <<>>)>>
      [] h = "validate_document" ->
            <<SdkCall(database, args.collection, "validate", <<args.data>>)>>
      [] h = "list_versions" ->
            <<versionFetchCall(UrlOf(ctx, <<"/", args.collection, "/", args.id, "/", "versions">>),
                               ctx.apiKey, NoOpts)>>
      [] h = "get_version" ->
            <<versionFetchCall(UrlOf(ctx, <<"/", args.collection, "/", args.id, "/", "versions",
                                            "/", ToString(args.version)>>),
                               ctx.apiKey, NoOpts)>>
      [] h = "restore_version" ->
            <<versionFetchCall(UrlOf(ctx, <<"/", args.collection, "/", args.id, "/", "versions",
                                            "/", ToString(args.version), "/", "restore">>),
                               ctx.apiKey, [method |-> "POST"])>>
      [] h = "diff_versions" ->
            <<versionFetchCall(UrlOf(ctx, <<"/", args.collection, "/", args.id, "/", "versions",
                                            "/", "diff">>)
                                   \o QueryString(<< <<"from", ToString(args.from)>>,
                                                     <<"to", ToString(args.to)>> >>),
                               ctx.apiKey, NoOpts)>>
      [] h = "create_webhook" ->
            <<webhookFetchCall(UrlOf(ctx, <<"/", args.collection, "/", "_webhooks">>),
                               ctx.apiKey, "POST",
                               JObj(<< <<"url", args.url>>, <<"events", args.events>>,
                                           <<"description", args.description>> >>))>>
      [] h = "list_webhooks" ->
            <<webhookFetchCall(UrlOf(ctx, <<"/", args.collection, "/", "_webhooks">>),
                               ctx.apiKey, "GET", JUndef)>>
      [] h = "get_webhook" ->
            <<webhookFetchCall(UrlOf(ctx, <<"/", args.collection, "/", "_webhooks",
                                            "/", args.webhookId>>),
                               ctx.apiKey, "GET", JUndef)>>
      [] h = "update_webhook" ->
            <<webhookFetchCall(UrlOf(ctx, <<"/", args.collection, "/", "_webhooks",
                                            "/", args.webhookId>>),
                               ctx.apiKey, "PUT",
                               UpdateWebhookBody(args))>>
      [] h = "delete_webhook" ->
            <<webhookFetchCall(UrlOf(ctx, <<"/", args.collection, "/", "_webhooks",
                                            "/", args.webhookId>>),
                               ctx.apiKey, "DELETE", JUndef)>>
      [] h = "test_webhook" ->
            <<webhookFetchCall(UrlOf(ctx, <<"/", args.collection, "/", "_webhooks",
                                            "/", args.webhookId, "/", "test">>),
                               ctx.apiKey, "POST", JUndef)>>
      [] h = "semantic_search" ->
            <<apiFetchCall(UrlOf(ctx, <<"/", args.collection, "/", "_search">>),
                           ctx.apiKey, "POST",
                           JObj(SelectSeq(<< <<"query", args.query>>, <<"limit", args.limit>>,
                                             <<"threshold", args.threshold>>,
                                             <<"filter", args.filter>> >>,
                                          LAMBDA m : m[1] = "query" \/ m[2] # JUndef)))>>
      [] h = "store_with_embedding" ->
            LET body == EmbedPayload(args.data, args.embed_field) IN
            IF args.id # ""
            THEN <<apiFetchCall(UrlOf(ctx, <<"/", args.collection, "/", args.id>>),
                                ctx.apiKey, "PUT", body)>>
            ELSE <<apiFetchCall(UrlOf(ctx, <<"/", args.collection>>),
                                ctx.apiKey, "POST", body)>>

\* a variant of NoFurtherCalls: one more attempt after a failure
RetryOnce(h, args, settled) == IF settled.ok THEN <<>> ELSE <<"retry">>

\* the outbound calls handler h issues after its await has settled: none, in
\* the rest of the try block as in the catch block
NoFurtherCalls(h, args, settled) == <<>>
(***************************************************************************)
(* Inputs of a handler invocation: argument records, values the remote     *)
(* service or the SDK may answer with, and the ways a call can fail.       *)
(***************************************************************************)
SampleSchema ==
    JObj(<< Member("type", JStr("object")),
            Member("required", JArr(<<JStr("name")>>)) >>)

SampleFilters ==
    << [field |-> "age", operator |-> "gte", value |-> JNum(18)],
       [field |-> "name", operator |-> "eq", value |-> JStr("Ann")] >>

SamplePatch ==
    JArr(<< JObj(<< Member("op", JStr("test")), Member("path", JStr("/n")), Member("value", JNum(1)) >>),
            JObj(<< Member("op", JStr("replace")), Member("path", JStr("/n")), Member("value", JNum(2)) >>) >>)

ArgsFor(collection) ==
    [collection |-> collection, id |-> "doc1", webhookId |-> "wh_1",
     version |-> 2, from |-> 1, to |-> 2, embed_field |-> "text",
     schema |-> SampleSchema,
     data |-> JObj(<< Member("text", JStr("hello")), Member("n", JNum(1)) >>),
     documents |-> JArr(<< JObj(<< Member("n", JNum(1)) >>) >>),
     operations |-> SamplePatch,
     filters |-> SampleFilters,
     filter |-> JObj(<< Member("n", JObj(<< Member("$gt", JNum(0)) >>)),
                        Member("text", JStr("hello")) >>),
     sort |-> JStr("-n"), limit |-> JNum(10), offset |-> JUndef, select |-> JUndef,
     onConflict |-> JStr("skip"), idField |-> JUndef,
     url |-> JStr("https://hooks.example/in"),
     events |-> JArr(<<JStr("document.created")>>),
     description |-> JUndef, status |-> JStr("disabled"),
     query |-> JStr("greeting"), threshold |-> JUndef]

\* the same call with every optional argument left out, and an empty id for
\* the handlers where the id is optional, and an empty id field name
ArgsBare(collection) ==
    [ArgsFor(collection) EXCEPT
         !.id = "", !.filter = JUndef, !.sort = JUndef, !.limit = JUndef,
         !.onConflict = JUndef, !.idField = JStr(""), !.status = JUndef]

\* a call whose data already has a $embed key, with an id field for the import,
\* an empty description and neither url nor events for the webhook update
ArgsMixed(collection) ==
    [ArgsFor(collection) EXCEPT
         !.data = JObj(<< Member("$embed", JStr("n")), Member("text", JStr("hello")) >>),
         !.onConflict = JStr("overwrite"), !.idField = JStr("sku"),
         !.url = JUndef, !.events = JUndef,
         !.description = JStr(""), !.status = JStr("active")]

ArgSets == {ArgsFor("users"), ArgsBare("posts"), ArgsMixed("logs")}

SampleDoc == JObj(<< Member("_id", JStr("abc")), Member("name", JStr("test")) >>)

\* a success payload that happens to look like a formatted error
ErrorLookalike ==
    JObj(<< Member("error", JObj(<< Member("code", JStr("X")),
                                    Member("message", JStr("m")),
                                    Member("suggestion", JStr("s")) >>)) >>)

SampleValues ==
    { SampleDoc,
      JNull,
      JNum(3),
      JArr(<<>>),
      JArr(<<SampleDoc, JNum(0)>>),
      JObj(<<>>),
      JObj(<< Member("data", JArr(<<SampleDoc>>)), Member("hasMore", JBool(FALSE)) >>),
      JObj(<< Member("data", JStr("ab")) >>),
      JObj(<< Member("collection", JStr("other")), Member("valid", JBool(TRUE)) >>),
      ErrorLookalike }

\* SDK methods typed Promise<void>
VoidSdkHandlers == {"delete_document", "set_schema", "remove_schema"}

Statuses == {400, 401, 403, 404, 409, 413, 500}
OkStatuses == {200, 201, 204}
UpstreamMessages == {"", "Upstream says no"}

\* a failure value carrying a status: with a message, or without one
StatusFailures ==
    { JObj(<< Member("status", JNum(s)), Member("message", JStr(m)) >>) :
          s \in Statuses, m \in UpstreamMessages }
    \cup { JObj(<< Member("status", JNum(s)) >>) : s \in Statuses }

\* network-level failures: an Error with no status
NetworkFailures == { ErrorOf("fetch failed"), ErrorOf("") }

SdkOutcomes(h) ==
    { Resolved(v) : v \in (IF h \in VoidSdkHandlers THEN {JUndef} ELSE SampleValues) }
    \cup { Rejected(e) : e \in StatusFailures \cup NetworkFailures }

EmptyBody == <<>>
HtmlBody == <<Tok("<"), Tok("html"), Tok(">")>>
ErrorBody(m) == Stringify(JObj(<< Member("error", m) >>))

Bodies ==
    { EmptyBody, HtmlBody,
      ErrorBody(JStr("Upstream says no")), ErrorBody(JStr("")),
      ErrorBody(JObj(<< Member("code", JStr("E_UPSTREAM")) >>)) }
    \cup { Stringify(v) : v \in SampleValues }

StatusTexts == {"", "Status Text"}

FetchOutcomes ==
    { NetFail("fetch failed"), NetFail("") }
    \cup { HttpResp(s, t, b) : s \in Statuses \cup OkStatuses, t \in StatusTexts, b \in Bodies }

RawOutcomes(h) == IF h \in SdkHandlers THEN SdkOutcomes(h) ELSE FetchOutcomes

(***************************************************************************)
(* The process (src/src/index.ts).                                         *)
(*                                                                         *)
(* main() runs synchronously up to its first await.  In HTTP mode every    *)
(* inbound request runs the async request listener, which suspends at      *)
(* `await server.connect(transport)` and at `await transport.handleRequest *)
(* (req, res)`; between suspensions other requests' steps and the          *)
(* response's "close" event may run.  The listener has no try/catch: a     *)
(* rejection of either await rejects the listener's promise, which nothing *)
(* handles.  What an unhandled rejection does is set by Node's             *)
(* --unhandled-rejections mode (env.rejections): "throw", the default      *)
(* since Node 15, terminates the process; "warn" only logs.                *)
(***************************************************************************)
MaxRequests == 2
Requests == 1..MaxRequests

NoExit == -1
NoDb == [created |-> FALSE]
NoRequest == [st |-> "none"]
NoResponse == [status |-> 0]

ApiKeys == {JUndef, JStr(""), JStr("jdb_sk_test_1")}
TransportSettings == {JUndef, JStr("stdio"), JStr("http")}
RejectionModes == {"throw", "warn"}
Methods == {"GET", "POST"}
\* req.url: the request target, path and query string in one string; kept
\* as its segments <<path>> or <<path, "?", query>>
Target(path, query) == IF query = "" THEN <<path>> ELSE <<path, "?", query>>
Urls == {Target("/health", ""), Target("/mcp", ""), Target("/other", ""),
         Target("/health", "probe=1")}

\* a variant of the credential test that accepts the empty string
CredentialMissingOnlyWhenUnset(e) == e.apiKey = JUndef

\* if (!apiKey)
CredentialMissing(e) == ~Truthy(e.apiKey)

\* a variant of transportType whose default is "http"
transportTypeDefaultHttp(e) == IF Truthy(e.transport) THEN e.transport.s ELSE "http"

\* process.env.JSONDB_MCP_TRANSPORT || "stdio"
transportType(e) == IF Truthy(e.transport) THEN e.transport.s ELSE "stdio"

\* new McpServer({ name: "jsondb-cloud", version: "1.0.0" }): nothing bound,
\* attached to nothing
NewMcpServer == [tools |-> <<>>, transport |-> 0, closeCalls |-> 0, closeRejected |-> FALSE]

\* server.tool(name, ...) for each name of a register*Tools function
registerDocumentTools(s) == [s EXCEPT !.tools = @ \o DocumentToolNames]
registerCollectionTools(s) == [s EXCEPT !.tools = @ \o CollectionToolNames]
registerSchemaTools(s) == [s EXCEPT !.tools = @ \o SchemaToolNames]
registerVersionTools(s) == [s EXCEPT !.tools = @ \o VersionToolNames]
registerWebhookTools(s) == [s EXCEPT !.tools = @ \o WebhookToolNames]
registerVectorTools(s) == [s EXCEPT !.tools = @ \o VectorToolNames]

\* the body of createServer(): the instance with the six register calls applied
BoundMcpServer ==
    registerVectorTools(registerWebhookTools(registerVersionTools(
        registerSchemaTools(registerCollectionTools(registerDocumentTools(NewMcpServer))))))

\* a variant of createServer that hands out one instance again and again
createServerShared(svs) ==
    IF svs = <<>> THEN [servers |-> <<BoundMcpServer>>, id |-> 1]
    ELSE [servers |-> svs, id |-> 1]

\* a variant of createServer that leaves the vector tools out
createServerWithoutVectors(svs) ==
    [servers |-> Append(svs, registerWebhookTools(registerVersionTools(
                     registerSchemaTools(registerCollectionTools(
                         registerDocumentTools(NewMcpServer)))))),
     id |-> Len(svs) + 1]

\* createServer(): a fresh instance; its identity is its index in `servers`
createServer(svs) == [servers |-> Append(svs, BoundMcpServer), id |-> Len(svs) + 1]

\* new StreamableHTTPServerTransport({ sessionIdGenerator: undefined })
NewHttpTransport ==
    [kind |-> "streamableHttp", sessionIdGenerator |-> JUndef, server |-> 0,
     handleCalls |-> 0, closeCalls |-> 0, closeRejected |-> FALSE]

\* new StdioServerTransport()
NewStdioTransport ==
    [kind |-> "stdio", sessionIdGenerator |-> JUndef, server |-> 0,
     handleCalls |-> 0, closeCalls |-> 0, closeRejected |-> FALSE]

Init ==
    /\ env \in [apiKey : ApiKeys, transport : TransportSettings, rejections : RejectionModes,
                 project : {JUndef}, namespace : {JUndef}, baseUrl : {JUndef}]
    /\ pc = "start"
    /\ exitCode = NoExit
    /\ db = NoDb
    /\ listener = FALSE
    /\ servers = <<>>
    /\ transports = <<>>
    /\ reqs = [r \in Requests |-> NoRequest]
    /\ call = [st |-> "idle"]
    /\ result = [st |-> "none"]

\* main(), missing credential: console.error(...); process.exit(1)
MainExitsWithoutCredential ==
    /\ pc = "start"
    /\ CredentialMissing(env)
    /\ pc' = "exited"
    /\ exitCode' = 1
    /\ UNCHANGED <<env, db, listener, servers, transports, reqs, call, result>>

\* main(), HTTP mode: new JsonDB; http.createServer(listener).listen(port, host)
MainListens ==
    /\ pc = "start"
    /\ ~CredentialMissing(env)
    /\ transportType(env) = "http"
    /\ db' = NewJsonDB(env)
    /\ listener' = TRUE
    /\ pc' = "listening"
    /\ UNCHANGED <<env, exitCode, servers, transports, reqs, call, result>>

\* main(), stdio mode: new JsonDB; createServer(); new StdioServerTransport();
\* server.connect(transport) is called and awaited
MainConnectsStdio ==
    /\ pc = "start"
    /\ ~CredentialMissing(env)
    /\ transportType(env) # "http"
    /\ db' = NewJsonDB(env)
    /\ LET c == createServer(servers)
           tid == Len(transports) + 1
       IN /\ servers' = [c.servers EXCEPT ![c.id].transport = tid]
          /\ transports' = Append(transports, [NewStdioTransport EXCEPT !.server = c.id])
    /\ pc' = "stdio_connecting"
    /\ UNCHANGED <<env, exitCode, listener, reqs, call, result>>

\* the awaited connect resolves: main() returns, the session serves stdio
StdioConnected ==
    /\ pc = "stdio_connecting"
    /\ pc' = "stdio"
    /\ UNCHANGED <<env, exitCode, db, listener, servers, transports, reqs, call, result>>

\* the awaited connect rejects: main().catch logs and calls process.exit(1)
StdioConnectFails ==
    /\ pc = "stdio_connecting"
    /\ pc' = "exited"
    /\ exitCode' = 1
    /\ UNCHANGED <<env, db, listener, servers, transports, reqs, call, result>>

HealthBody == Stringify(JObj(<< Member("status", JStr("ok")) >>))
NotFoundBody == Stringify(JObj(<< Member("error", JStr("Not found")) >>))

\* the method of a request that took the protocol branch is not kept: the
\* branch is taken whatever the method is and nothing after it depends on it
AnyMethod == "*"

\* the request listener up to its first await (or to its return); requests
\* are numbered in the order they arrive
RequestArrives(r, method, url) ==
    /\ pc = "listening"
    /\ reqs[r].st = "none"
    /\ \A q \in Requests : q < r => reqs[q].st # "none"
    /\ IF method = "GET" /\ url = <<"/health">>
       THEN /\ reqs' = [reqs EXCEPT ![r] =
                   [st |-> "returned", method |-> method, url |-> url, server |-> 0,
                    transport |-> 0, closed |-> FALSE, failed |-> FALSE, h |-> "",
                    res |-> [status |-> 200, body |-> HealthBody]]]
            /\ UNCHANGED <<servers, transports>>
       ELSE IF url = <<"/mcp">>
       THEN LET c == createServer(servers)
                tid == Len(transports) + 1
            IN /\ servers' = [c.servers EXCEPT ![c.id].transport = tid]
               /\ transports' = Append(transports, [NewHttpTransport EXCEPT !.server = c.id])
               /\ reqs' = [reqs EXCEPT ![r] =
                      [st |-> "connecting", method |-> AnyMethod, url |-> url,
                       server |-> c.id, transport |-> tid, closed |-> FALSE,
                       failed |-> FALSE, h |-> "", res |-> NoResponse]]
       ELSE /\ reqs' = [reqs EXCEPT ![r] =
                   [st |-> "returned", method |-> method, url |-> url, server |-> 0,
                    transport |-> 0, closed |-> FALSE, failed |-> FALSE, h |-> "",
                    res |-> [status |-> 404, body |-> NotFoundBody]]]
            /\ UNCHANGED <<servers, transports>>
    /\ UNCHANGED <<env, pc, exitCode, db, listener, call, result>>

\* `await server.connect(transport)` resolves; transport.handleRequest(req, res)
\* is called and awaited
ConnectResolves(r) ==
    /\ pc = "listening"
    /\ reqs[r].st = "connecting"
    /\ transports' = [transports EXCEPT ![reqs[r].transport].handleCalls = @ + 1]
    /\ reqs' = [reqs EXCEPT ![r].st = "handling"]
    /\ UNCHANGED <<env, pc, exitCode, db, listener, servers, call, result>>

\* an await of the listener rejects: nothing catches it
UnhandledRejection(r) ==
    /\ reqs' = [reqs EXCEPT ![r].st = "rejected", ![r].failed = TRUE]
    /\ IF env.rejections = "throw"
       THEN pc' = "crashed" /\ exitCode' = 1
       ELSE UNCHANGED <<pc, exitCode>>
    /\ UNCHANGED <<env, db, listener, servers, transports, call, result>>

\* `await server.connect(transport)` rejects
ConnectRejects(r) ==
    /\ pc = "listening"
    /\ reqs[r].st = "connecting"
    /\ UnhandledRejection(r)

\* `await transport.handleRequest(req, res)` rejects
HandleRequestRejects(r) ==
    /\ pc = "listening"
    /\ reqs[r].st = "handling"
    /\ UnhandledRejection(r)

\* tool calls an inbound request may carry, and what their backing call may do
SessionTools == {"semantic_search"}
SessionRaw(h) ==
    IF h = "get_document"
    THEN { Resolved(SampleDoc),
           Rejected(JObj(<< Member("status", JNum(404)), Member("message", JStr("")) >>)),
           Rejected(ErrorOf("fetch failed")) }
    ELSE { HttpResp(200, "OK", Stringify(JArr(<<SampleDoc>>))),
           HttpResp(403, "Forbidden", EmptyBody),
           NetFail("fetch failed") }

\* inside handleRequest: the protocol instance dispatches the tool call and the
\* handler reaches its await
ToolCallStarts(r, h) ==
    /\ pc = "listening"
    /\ reqs[r].st = "handling"
    /\ reqs' = [reqs EXCEPT ![r].st = "calling", ![r].h = h]
    /\ UNCHANGED <<env, pc, exitCode, db, listener, servers, transports, call, result>>

\* a variant of ToolCallSettles that writes the ToolResponse whether or not
\* the connection is gone
ToolCallSettlesWritesLate(r) ==
    /\ pc = "listening"
    /\ reqs[r].st = "calling"
    /\ \E raw \in SessionRaw(reqs[r].h) :
          LET out == Handle(reqs[r].h, ArgsFor("users"), Settle(reqs[r].h, raw)) IN
          reqs' = [reqs EXCEPT ![r].st = "returned",
                               ![r].res = [status |-> 200,
                                           toolError |-> "isError" \in DOMAIN out]]
    /\ UNCHANGED <<env, pc, exitCode, db, listener, servers, transports, call, result>>

\* the backing call settles, the handler returns its ToolResponse, the adapter
\* writes it to the response (unless the connection is gone) and handleRequest
\* resolves: the listener returns
ToolCallSettles(r) ==
    /\ pc = "listening"
    /\ reqs[r].st = "calling"
    /\ \E raw \in SessionRaw(reqs[r].h) :
          LET out == Handle(reqs[r].h, ArgsFor("users"), Settle(reqs[r].h, raw)) IN
          reqs' = [reqs EXCEPT ![r].st = "returned",
                               ![r].res = IF reqs[r].closed THEN @
                                          ELSE [status |-> 200,
                                                toolError |-> "isError" \in DOMAIN out]]
    /\ UNCHANGED <<env, pc, exitCode, db, listener, servers, transports, call, result>>

\* a variant of the close callback without the .catch() handlers and with
\* the second close behind the first: a rejected transport.close() is an
\* unhandled rejection and server.close() is not reached
ResponseClosesUnguarded(r) ==
    /\ pc = "listening"
    /\ reqs[r].st # "none"
    /\ ~reqs[r].closed
    /\ reqs' = [reqs EXCEPT ![r].closed = TRUE]
    /\ IF reqs[r].server # 0
       THEN \E tr, sr \in BOOLEAN :
               /\ transports' = [transports EXCEPT ![reqs[r].transport].closeCalls = @ + 1,
                                                   ![reqs[r].transport].closeRejected = tr]
               /\ IF tr
                  THEN /\ UNCHANGED servers
                       /\ pc' = "crashed" /\ exitCode' = 1
                  ELSE /\ servers' = [servers EXCEPT ![reqs[r].server].closeCalls = @ + 1,
                                                     ![reqs[r].server].closeRejected = sr]
                       /\ UNCHANGED <<pc, exitCode>>
       ELSE UNCHANGED <<servers, transports, pc, exitCode>>
    /\ UNCHANGED <<env, db, listener, call, result>>

\* res.on("close", ...): the response's "close" event, emitted once, when the
\* response has been sent or when the client drops the connection.  For a
\* protocol request the registered callback runs:
\*     transport.close().catch(() => {}); server.close().catch(() => {});
\* either close() may reject (tr, sr); each rejection goes to its own
\* `.catch(() => {})` and ends there
ResponseCloses(r) ==
    /\ pc = "listening"
    /\ reqs[r].st # "none"
    /\ ~reqs[r].closed
    /\ reqs' = [reqs EXCEPT ![r].closed = TRUE]
    /\ IF reqs[r].server # 0
       THEN \E tr, sr \in BOOLEAN :
               /\ transports' = [transports EXCEPT ![reqs[r].transport].closeCalls = @ + 1,
                                                   ![reqs[r].transport].closeRejected = tr]
               /\ servers' = [servers EXCEPT ![reqs[r].server].closeCalls = @ + 1,
                                             ![reqs[r].server].closeRejected = sr]
       ELSE UNCHANGED <<servers, transports>>
    /\ UNCHANGED <<env, pc, exitCode, db, listener, call, result>>

Next ==
    \/ MainExitsWithoutCredential
    \/ MainListens
    \/ MainConnectsStdio
    \/ StdioConnected
    \/ StdioConnectFails
    \/ \E r \in Requests, m \in Methods, u \in Urls : RequestArrives(r, m, u)
    \/ \E r \in Requests : ConnectResolves(r)
    \/ \E r \in Requests : ConnectRejects(r)
    \/ \E r \in Requests : HandleRequestRejects(r)
    \/ \E r \in Requests, h \in SessionTools : ToolCallStarts(r, h)
    \/ \E r \in Requests : ToolCallSettles(r)
    \/ \E r \in Requests : ResponseCloses(r)

Spec == Init /\ [][Next]_vars

(***************************************************************************)
(* ToolSpec: one handler invocation.  The protocol library calls the       *)
(* handler with validated arguments; the handler awaits its backing call;  *)
(* when that settles the handler runs to its return.                       *)
(***************************************************************************)
Idle == [st |-> "idle"]
NoResult == [st |-> "none"]

\* environments a started process can have: a credential that passed the
\* check of main(), and the context variables unset, set, and the base URL
\* written with a trailing slash
SampleBaseUrl == JText(<<"https://db.example">>)
StartedEnvs ==
    { [apiKey |-> k, transport |-> JUndef, rejections |-> "throw",
       project |-> c.project, namespace |-> c.namespace, baseUrl |-> c.baseUrl] :
      k \in { a \in ApiKeys : ~CredentialMissing([apiKey |-> a]) },
      c \in { [project |-> JUndef, namespace |-> JUndef, baseUrl |-> JUndef],
              [project |-> JStr("shop"), namespace |-> JStr("legacy"), baseUrl |-> SampleBaseUrl],
              [project |-> JStr(""), namespace |-> JStr("legacy"),
               baseUrl |-> JText(SampleBaseUrl.k \o <<"/">>)] } }

\* the variables of the process, at rest while ToolSpec runs: main() has
\* returned in single-session mode
ProcessAtRest ==
    /\ env \in StartedEnvs
    /\ pc = "stdio"
    /\ exitCode = NoExit
    /\ db = NewJsonDB(env)
    /\ listener = FALSE
    /\ servers = <<>>
    /\ transports = <<>>
    /\ reqs = [r \in Requests |-> NoRequest]

ToolInit ==
    /\ ProcessAtRest
    /\ call = Idle
    /\ result = NoResult

\* the handler is entered and reaches its await
Invoke(h, args) ==
    /\ call.st = "idle"
    /\ call' = [st |-> "awaiting", h |-> h, args |-> args,
                sent |-> OutboundCalls(h, args, env, db)]
    /\ UNCHANGED <<env, pc, exitCode, db, listener, servers, transports, reqs, result>>

\* the backing call settles and the handler runs to completion
BackingCallSettles ==
    /\ call.st = "awaiting"
    /\ \E raw \in RawOutcomes(call.h) :
          LET settled == Settle(call.h, raw) IN
          result' = [st |-> "done", raw |-> raw, settled |-> settled,
                     out |-> Handle(call.h, call.args, settled),
                     sent |-> call.sent \o NoFurtherCalls(call.h, call.args, settled)]
    /\ call' = [call EXCEPT !.st = "done"]
    /\ UNCHANGED <<env, pc, exitCode, db, listener, servers, transports, reqs>>

ToolNext ==
    \/ \E h \in Handlers, args \in ArgSets : Invoke(h, args)
    \/ BackingCallSettles

ToolSpec == ToolInit /\ [][ToolNext]_vars


(***************************************************************************)
(* CompilerSpec: the filter compiler applied to a FilterSpec.              *)
(***************************************************************************)
MaxFilters == 2

FilterFields == {"age", "name", "__proto__"}
FilterOperators == {"eq", "gte", "in", "regex", "constructor"}
FilterValues == {JNum(18), JArr(<<JStr("a")>>)}
FilterEntries == [field : FilterFields, operator : FilterOperators, value : FilterValues]

RECURSIVE FilterSpecs(_)
FilterSpecs(n) ==
    IF n = 0 THEN {<<>>}
    ELSE FilterSpecs(n - 1)
         \cup { Append(fs, f) : fs \in { g \in FilterSpecs(n - 1) : Len(g) = n - 1 },
                                f \in FilterEntries }

\* buildFilterObject is called with a FilterSpec
Compile(filters) ==
    /\ call.st = "idle"
    /\ call' = [st |-> "compiling", filters |-> filters]
    /\ UNCHANGED <<env, pc, exitCode, db, listener, servers, transports, reqs, result>>

\* buildFilterObject returns
CompileReturns ==
    /\ call.st = "compiling"
    /\ call' = [call EXCEPT !.st = "compiled"]
    /\ result' = [st |-> "compiled", obj |-> buildFilterObject(call.filters)]
    /\ UNCHANGED <<env, pc, exitCode, db, listener, servers, transports, reqs>>

CompilerNext ==
    \/ \E filters \in FilterSpecs(MaxFilters) : Compile(filters)
    \/ CompileReturns

CompilerSpec == ToolInit /\ [][CompilerNext]_vars

(***************************************************************************)
(* ClientSpec: the REST client functions called directly, with any method  *)
(* and with or without a body.                                             *)
(***************************************************************************)
RestClients == {"apiFetch", "webhookFetch"}
HttpMethods == {"GET", "POST", "PUT", "PATCH", "DELETE"}
RequestBodies == {JUndef, JNull, JObj(<<>>), SampleDoc}
ClientUrl == <<"https://db.example", "/", "shop", "/", "users">>

\* the fetch() call the client function makes for its arguments
ClientCall(client, url, apiKey, method, body) ==
    IF client = "apiFetch" THEN apiFetchCall(url, apiKey, method, body)
    ELSE webhookFetchCall(url, apiKey, method, body)

\* the client function is called and reaches `await fetch(url, opts)`
ClientRequest(client, method, body) ==
    /\ call.st = "idle"
    /\ call' = [st |-> "fetching", client |-> client, method |-> method, body |-> body,
                apiKey |-> resolveEnv(env).apiKey,
                sent |-> <<ClientCall(client, ClientUrl, resolveEnv(env).apiKey, method, body)>>]
    /\ UNCHANGED <<env, pc, exitCode, db, listener, servers, transports, reqs, result>>

\* versionFetch is called, with opts {} or { method: "POST" } as at its call
\* sites, and reaches `await fetch(url, {...})`
VersionRequest(method) ==
    /\ call.st = "idle"
    /\ call' = [st |-> "fetching", client |-> "versionFetch", method |-> method,
                body |-> JUndef, apiKey |-> resolveEnv(env).apiKey,
                sent |-> <<versionFetchCall(ClientUrl, resolveEnv(env).apiKey,
                                            IF method = "POST" THEN [method |-> "POST"]
                                            ELSE NoOpts)>>]
    /\ UNCHANGED <<env, pc, exitCode, db, listener, servers, transports, reqs, result>>

\* fetch() settles and the client function runs to its end
ClientSettles ==
    /\ call.st = "fetching"
    /\ \E fo \in FetchOutcomes :
          result' = [st |-> "settled", raw |-> fo,
                     settled |-> CASE call.client = "apiFetch" -> apiFetch(fo)
                                   [] call.client = "webhookFetch" -> webhookFetch(fo)
                                   [] OTHER -> versionFetch(fo)]
    /\ call' = [call EXCEPT !.st = "settled"]
    /\ UNCHANGED <<env, pc, exitCode, db, listener, servers, transports, reqs>>

ClientNext ==
    \/ \E c \in RestClients, m \in HttpMethods, b \in RequestBodies : ClientRequest(c, m, b)
    \/ \E m \in {"GET", "POST"} : VersionRequest(m)
    \/ ClientSettles

ClientSpec == ToolInit /\ [][ClientNext]_vars
(***************************************************************************)
(* Properties of the process (checked under Spec).                         *)
(***************************************************************************)
\* request r ran the protocol branch of the listener: a session was made for it
HasSession(r) == reqs[r].st # "none" /\ reqs[r].server # 0
ServerOf(r) == servers[reqs[r].server]
TransportOf(r) == transports[reqs[r].transport]

\* the request is over: its response's "close" event has been delivered, or
\* the process is gone
RequestOver(r) == reqs[r].closed \/ pc \in {"crashed", "exited"}

\* C1: in stateless-HTTP mode the adapter and the protocol instance made for
\* a protocol-path request are each closed exactly once however the request
\* ends (completion, a failure of connect or of request handling, a client
\* disconnect): never twice, and not zero times once the request is over.
C1_SessionClosedExactlyOnce ==
    \A r \in Requests :
        HasSession(r) =>
            /\ ServerOf(r).closeCalls <= 1
            /\ TransportOf(r).closeCalls <= 1
            /\ RequestOver(r) =>
                   /\ ServerOf(r).closeCalls = 1
                   /\ TransportOf(r).closeCalls = 1

\* C2: every protocol-path request has a protocol instance and an adapter of
\* its own, the adapter negotiating no session id; no two requests share
\* either, and a session whose own request has not released it has not been
\* closed by the release of any other request's session.
C2_SessionsAreNotShared ==
    \A r \in Requests :
        HasSession(r) =>
            /\ TransportOf(r).kind = "streamableHttp"
            /\ TransportOf(r).sessionIdGenerator = JUndef
            /\ ServerOf(r).transport = reqs[r].transport
            /\ TransportOf(r).server = reqs[r].server
            /\ \A q \in Requests \ {r} :
                   HasSession(q) =>
                       /\ reqs[q].server # reqs[r].server
                       /\ reqs[q].transport # reqs[r].transport
            /\ ~reqs[r].closed =>
                   /\ ServerOf(r).closeCalls = 0
                   /\ TransportOf(r).closeCalls = 0

\* two sessions in flight at once, one released by its client's disconnect
\* while its tool call was still under way, the other still open
C2_Witness ==
    \E r, q \in Requests :
        /\ r # q
        /\ HasSession(r) /\ HasSession(q)
        /\ reqs[r].closed /\ reqs[r].st = "calling"
        /\ ~reqs[q].closed /\ reqs[q].st = "calling"
        /\ ServerOf(r).closeCalls = 1

\* C3: no failure while handling one call terminates the process: after a
\* failed backing call of a handler, and after a failed connect or request
\* handling of one inbound request, the process is still running and serving.
C3_CallFailureDoesNotTerminate ==
    (\E r \in Requests : reqs[r].st # "none" /\ (reqs[r].failed \/ reqs[r].res = [status |-> 200, toolError |-> TRUE]))
        => pc = "listening" /\ exitCode = NoExit

\* C4: with the API credential unset or empty the process exits with a
\* non-zero status, and neither an SDK client, a protocol instance, a
\* session nor an HTTP listener exists at any time.
C4_NoCredentialNoStart ==
    env.apiKey \in {JUndef, JStr("")} =>
        /\ pc \in {"start", "exited"}
        /\ pc = "exited" => exitCode # NoExit /\ exitCode # 0
        /\ ~db.created
        /\ servers = <<>>
        /\ transports = <<>>
        /\ ~listener
        /\ \A r \in Requests : reqs[r].st = "none"

C4_Witness ==
    /\ env.apiKey = JStr("")
    /\ pc = "exited"
    /\ exitCode = 1


C13_CloseErrorsSwallowed ==
    [][\A r \in Requests :
          (HasSession(r) /\ ~reqs[r].closed /\ reqs'[r].closed) =>
              /\ transports'[reqs[r].transport].closeCalls
                     = transports[reqs[r].transport].closeCalls + 1
              /\ servers'[reqs[r].server].closeCalls
                     = servers[reqs[r].server].closeCalls + 1
              /\ reqs'[r].res = reqs[r].res
              /\ reqs'[r].st = reqs[r].st
              /\ pc' = pc /\ exitCode' = exitCode]_vars

\* a sent response whose session's adapter failed to close
C13_Witness ==
    \E r \in Requests :
        /\ HasSession(r) /\ reqs[r].closed
        /\ TransportOf(r).closeRejected /\ ~ServerOf(r).closeRejected
        /\ ServerOf(r).closeCalls = 1
        /\ reqs[r].res = [status |-> 200, toolError |-> FALSE]
        /\ pc = "listening"

\* the path of a request target: what precedes the query string
PathOf(url) == url[1]

\* C14: every inbound request gets the outcome its method and path decide:
\* GET /health the 200 liveness payload, the protocol endpoint a session
\* cycle, anything else a 404 not-found response; only protocol-endpoint
\* requests get a session.
C14_RoutingByMethodAndPath ==
    \A r \in Requests :
        reqs[r].st # "none" =>
            IF reqs[r].method = "GET" /\ PathOf(reqs[r].url) = "/health"
            THEN /\ reqs[r].res = [status |-> 200, body |-> HealthBody]
                 /\ reqs[r].server = 0
            ELSE IF PathOf(reqs[r].url) = "/mcp"
            THEN HasSession(r)
            ELSE /\ reqs[r].res = [status |-> 404, body |-> NotFoundBody]
                 /\ reqs[r].server = 0

\* C15: the mode is fixed by the environment the process started with: in
\* single-session mode there is at most one protocol instance, bound once
\* and attached to the one stdio channel, and never a listener or an HTTP
\* session; in stateless-HTTP mode there is never a stdio session.
C15_ModeChosenOnce ==
    IF env.transport = JStr("http")
    THEN /\ \A i \in DOMAIN transports : transports[i].kind # "stdio"
         /\ pc \notin {"stdio_connecting", "stdio"}
    ELSE /\ ~listener
         /\ pc # "listening"
         /\ \A r \in Requests : reqs[r].st = "none"
         /\ Len(servers) <= 1 /\ Len(transports) = Len(servers)
         /\ pc \in {"stdio_connecting", "stdio"} =>
                /\ Len(servers) = 1
                /\ servers[1].tools = BoundMcpServer.tools
                /\ servers[1].transport = 1
                /\ transports[1].kind = "stdio"

C15_Witness ==
    /\ env.transport = JUndef
    /\ pc = "stdio"
    /\ Len(servers) = 1
    /\ transports[1].kind = "stdio"
    /\ ~listener

\* the names bound to a protocol instance that belong to a category
BoundIn(s, category) == { i \in 1..Len(s.tools) : s.tools[i] \in category }

\* C17: every protocol instance that exists, attached or about to be, has
\* the whole catalog bound, each name once: 8 document, 4 collection, 4
\* schema, 4 version and 6 webhook operations and the 2 vector operations.
C17_CompleteCatalog ==
    \A i \in DOMAIN servers :
        LET s == servers[i] IN
        /\ Len(s.tools) = 28
        /\ \A j, k \in 1..Len(s.tools) : s.tools[j] = s.tools[k] => j = k
        /\ Cardinality(BoundIn(s, DocumentTools)) = 8
        /\ Cardinality(BoundIn(s, CollectionTools)) = 4
        /\ Cardinality(BoundIn(s, SchemaTools)) = 4
        /\ Cardinality(BoundIn(s, VersionTools)) = 4
        /\ Cardinality(BoundIn(s, WebhookTools)) = 6
        /\ Cardinality(BoundIn(s, VectorTools)) = 2
        /\ {"create_document", "export_collection", "validate_document", "diff_versions",
            "test_webhook", "semantic_search", "store_with_embedding"}
               \subseteq { s.tools[j] : j \in 1..Len(s.tools) }

\* two instances of stateless-HTTP mode, both attached, both complete
C17_Witness ==
    /\ Len(servers) = 2
    /\ \A i \in DOMAIN servers : servers[i].transport # 0 /\ Len(servers[i].tools) = 28
    /\ pc = "listening"

\* the session of request r has been released: both of its objects closed
Released(r) == ServerOf(r).closeCalls >= 1 /\ TransportOf(r).closeCalls >= 1

\* C28: no session leaks: in every state, every session that has not been
\* released belongs to a request whose connection is still open, so that a
\* session whose request has ended (by completion, by a failure of connect or
\* of request handling, or by a client disconnect) has been released.
C28_NoSessionLeak ==
    \A r \in Requests :
        (HasSession(r) /\ ~Released(r)) => ~RequestOver(r)

\* C29: once the close callback of a request has run, its protocol instance
\* is not connected to an adapter and its adapter is not asked to handle the
\* request, whenever the close event comes relative to the two awaits.
C29_NoUseAfterRelease ==
    [][\A r \in Requests :
          (HasSession(r) /\ reqs[r].closed) =>
              /\ servers'[reqs[r].server].transport = ServerOf(r).transport
              /\ transports'[reqs[r].transport].handleCalls = TransportOf(r).handleCalls]_vars
(***************************************************************************)
(* Properties of the operation handlers (checked under ToolSpec).          *)
(***************************************************************************)
Done == result.st = "done"
Returned == Done /\ "content" \in DOMAIN result.out
Flagged(resp) == "isError" \in DOMAIN resp
Decoded(resp) == Parse(resp.content[1].text)

\* how the handler's try block ended: Resolved(value handed to success) or
\* Rejected(what its catch block received)
TryOutcome(h, args, settled) ==
    CASE h = "delete_document" -> delete_document_try(args, settled)
      [] h = "count_documents" -> count_documents_try(args, settled)
      [] h = "export_collection" -> export_collection_try(args, settled)
      [] h = "get_schema" -> get_schema_try(args, settled)
      [] h = "set_schema" -> set_schema_try(args, settled)
      [] h = "remove_schema" -> remove_schema_try(args, settled)
      [] h = "validate_document" -> validate_document_try(args, settled)
      [] h = "delete_webhook" -> delete_webhook_try(args, settled)
      [] OTHER -> settled

Tried == TryOutcome(call.h, call.args, result.settled)

\* the keys of an object, in order
Keys(v) == [i \in 1..Len(v.o) |-> v.o[i][1]]

\* p is the parse of {"error": {"code": string, "message": ..., "suggestion": string}}
IsErrorPayload(p) ==
    /\ p.ok
    /\ p.v.t = "obj"
    /\ Keys(p.v) = <<"error">>
    /\ Get(p.v, "error").t = "obj"
    /\ Keys(Get(p.v, "error")) = <<"code", "message", "suggestion">>
    /\ Get(Get(p.v, "error"), "code").t = "str"
    /\ Get(Get(p.v, "error"), "suggestion").t = "str"

ErrorCode(resp) == Get(Get(Decoded(resp).v, "error"), "code").s
ErrorMessage(resp) == Get(Get(Decoded(resp).v, "error"), "message")
ErrorSuggestion(resp) == Get(Get(Decoded(resp).v, "error"), "suggestion").s

\* resp is what the error formatter gives for the triple resp decodes to
ViaErrorFormatter(resp) ==
    /\ IsErrorPayload(Decoded(resp))
    /\ resp = [content |-> <<[type |-> "text",
                              text |-> Stringify(JObj(<< Member("error",
                                  JObj(<< Member("code", JStr(ErrorCode(resp))),
                                          Member("message", ErrorMessage(resp)),
                                          Member("suggestion", JStr(ErrorSuggestion(resp))) >>)) >>))]>>,
               isError |-> TRUE]

\* the status a failure value carries (0 when it carries none)
StatusOf(e) == IF Get(e, "status").t = "num" THEN Get(e, "status").n ELSE 0

\* C5: every ToolResponse has exactly one content block, of type text; the
\* error flag is set exactly when the handler reported through the error
\* formatter, and then the block decodes to {error: {code, message,
\* suggestion}}; a response built by the success formatter has no error flag.
C5_ResponseShape ==
    Returned =>
        LET resp == result.out IN
        /\ Len(resp.content) = 1
        /\ resp.content[1].type = "text"
        /\ DOMAIN resp \subseteq {"content", "isError"}
        /\ Flagged(resp) <=> ~Tried.ok
        /\ Flagged(resp) => resp.isError = TRUE /\ IsErrorPayload(Decoded(resp))
        /\ Tried.ok => resp = [content |-> <<[type |-> "text", text |-> Stringify(Tried.v)]>>]

\* a failure reported through the error formatter, and flagged
C5_Witness ==
    /\ Returned
    /\ call.h = "json_patch_document"
    /\ ~Tried.ok
    /\ result.out.isError = TRUE
    /\ ErrorCode(result.out) = "PATCH_CONFLICT"

\* C6: whatever the backing call does (success, a failure with any status,
\* a status-less network failure) the handler returns a ToolResponse and
\* throws nothing, and every failure is reported through the error formatter.
C6_NeverThrows ==
    Done =>
        /\ "threw" \notin DOMAIN result.out
        /\ Returned
        /\ ~result.settled.ok => Flagged(result.out) /\ ViaErrorFormatter(result.out)

C6_Witness ==
    /\ Returned
    /\ call.h = "export_collection"
    /\ ~result.raw.net
    /\ Flagged(result.out)

PassThroughHandlers ==
    Handlers \ {"delete_document", "count_documents", "export_collection", "get_schema",
                "set_schema", "remove_schema", "validate_document", "delete_webhook"}

C8Handlers == {"create_document", "get_document", "semantic_search", "store_with_embedding"}
C8Code(h, s) ==
    CASE h = "create_document" /\ s = 409 -> "DOCUMENT_CONFLICT"
      [] h = "create_document" /\ s = 413 -> "DOCUMENT_TOO_LARGE"
      [] h = "create_document" /\ s = 400 -> "VALIDATION_ERROR"
      [] h = "get_document" /\ s = 404 -> "DOCUMENT_NOT_FOUND"
      [] h = "semantic_search" /\ s = 404 -> "COLLECTION_NOT_FOUND"
      [] h = "semantic_search" /\ s = 400 -> "INVALID_SEARCH"
      [] h = "semantic_search" /\ s = 403 -> "SEARCH_NOT_AVAILABLE"
      [] h = "store_with_embedding" /\ s = 400 -> "VALIDATION_ERROR"
      [] h = "store_with_embedding" /\ s = 413 -> "DOCUMENT_TOO_LARGE"
      [] h = "store_with_embedding" /\ s = 403 -> "EMBEDDING_NOT_AVAILABLE"
      [] OTHER -> ""

\* C8: a backing call failing with a status of the handler's decision table
\* gives an error response whose code is the table's, whatever the message.
C8_TableCodes ==
    (Done /\ ~result.settled.ok /\ call.h \in C8Handlers
          /\ C8Code(call.h, StatusOf(result.settled.err)) # "") =>
        /\ Returned
        /\ Flagged(result.out)
        /\ IsErrorPayload(Decoded(result.out))
        /\ ErrorCode(result.out) = C8Code(call.h, StatusOf(result.settled.err))

C8_Witness ==
    /\ Returned
    /\ call.h = "store_with_embedding"
    /\ ~result.settled.ok
    /\ StatusOf(result.settled.err) = 403
    /\ Get(result.settled.err, "message") = JStr("Upstream says no")
    /\ ErrorCode(result.out) = "EMBEDDING_NOT_AVAILABLE"

\* the statuses each handler's decision table names, and its generic code
TableStatuses(h) ==
    CASE h = "create_document" -> {409, 413, 400}
      [] h \in {"get_document", "delete_document", "remove_schema", "validate_document",
                "list_versions", "get_version", "get_webhook", "update_webhook",
                "delete_webhook", "test_webhook"} -> {404}
      [] h \in {"update_document", "patch_document", "restore_version"} -> {404, 400}
      [] h = "json_patch_document" -> {404, 409, 400}
      [] h = "import_documents" -> {413, 409}
      [] h \in {"export_collection", "create_webhook"} -> {403}
      [] h = "set_schema" -> {400}
      [] h = "diff_versions" -> {403, 404}
      [] h = "semantic_search" -> {404, 400, 403}
      [] h = "store_with_embedding" -> {400, 413, 403}
      [] OTHER -> {}

GenericCode(h) ==
    CASE h = "create_document" -> "CREATE_FAILED"
      [] h = "get_document" -> "GET_FAILED"
      [] h = "list_documents" -> "LIST_FAILED"
      [] h = "update_document" -> "UPDATE_FAILED"
      [] h = "patch_document" -> "PATCH_FAILED"
      [] h = "delete_document" -> "DELETE_FAILED"
      [] h = "count_documents" -> "COUNT_FAILED"
      [] h = "json_patch_document" -> "JSON_PATCH_FAILED"
      [] h = "list_collections" -> "LIST_COLLECTIONS_FAILED"
      [] h = "search_documents" -> "SEARCH_FAILED"
      [] h = "import_documents" -> "IMPORT_FAILED"
      [] h = "export_collection" -> "EXPORT_FAILED"
      [] h = "get_schema" -> "GET_SCHEMA_FAILED"
      [] h = "set_schema" -> "SET_SCHEMA_FAILED"
      [] h = "remove_schema" -> "REMOVE_SCHEMA_FAILED"
      [] h = "validate_document" -> "VALIDATE_FAILED"
      [] h = "list_versions" -> "LIST_VERSIONS_FAILED"
      [] h = "get_version" -> "GET_VERSION_FAILED"
      [] h = "restore_version" -> "RESTORE_VERSION_FAILED"
      [] h = "diff_versions" -> "DIFF_VERSIONS_FAILED"
      [] h = "create_webhook" -> "CREATE_WEBHOOK_FAILED"
      [] h = "list_webhooks" -> "LIST_WEBHOOKS_FAILED"
      [] h = "get_webhook" -> "GET_WEBHOOK_FAILED"
      [] h = "update_webhook" -> "UPDATE_WEBHOOK_FAILED"
      [] h = "delete_webhook" -> "DELETE_WEBHOOK_FAILED"
      [] h = "test_webhook" -> "TEST_WEBHOOK_FAILED"
      [] h = "semantic_search" -> "SEARCH_FAILED"
      [] h = "store_with_embedding" -> "STORE_EMBEDDING_FAILED"

\* C9: a failure whose status is in no entry of the handler's table, a
\* status-less network failure included, gives an error response with the
\* handler's generic *_FAILED code; its message is the failure's message when
\* that is non-empty and a non-empty default text otherwise.
C9_FallbackCodeAndMessage ==
    (Done /\ ~result.settled.ok
          /\ StatusOf(result.settled.err) \notin TableStatuses(call.h)) =>
        /\ Returned
        /\ Flagged(result.out)
        /\ IsErrorPayload(Decoded(result.out))
        /\ ErrorCode(result.out) = GenericCode(call.h)
        /\ LET m == Get(result.settled.err, "message") IN
           IF Truthy(m) THEN ErrorMessage(result.out) = m
           ELSE /\ ErrorMessage(result.out).t = "str"
                /\ ErrorMessage(result.out).s # ""

\* a network-level failure with an empty message: generic code, default text
C9_Witness ==
    /\ Returned
    /\ call.h = "create_webhook"
    /\ ~result.raw.net
    /\ Get(result.settled.err, "message") = JStr("")
    /\ ErrorCode(result.out) = "CREATE_WEBHOOK_FAILED"
    /\ ErrorMessage(result.out) = JStr("Failed to create webhook for collection '"
                                       \o call.args.collection \o "'.")

\* the family of codes each status may be mapped to
Family(s) ==
    CASE s = 404 -> {"DOCUMENT_NOT_FOUND", "COLLECTION_NOT_FOUND", "SCHEMA_NOT_FOUND",
                     "VERSION_NOT_FOUND", "WEBHOOK_NOT_FOUND"}
      [] s = 409 -> {"DOCUMENT_CONFLICT", "PATCH_CONFLICT", "IMPORT_CONFLICT"}
      [] s = 413 -> {"DOCUMENT_TOO_LARGE", "IMPORT_TOO_LARGE"}
      [] s = 403 -> {"SEARCH_NOT_AVAILABLE", "WEBHOOK_LIMIT", "EMBEDDING_NOT_AVAILABLE",
                     "PRO_FEATURE", "EXPORT_LIMIT_EXCEEDED"}
      [] s = 400 -> {"VALIDATION_ERROR", "INVALID_SEARCH", "INVALID_SCHEMA"}
      [] OTHER -> {}

\* the code handler h answers the failure e with
CodeFor(h, args, e) == ErrorCode(Handle(h, args, Rejected(e)))

\* C10: whenever a handler maps a status to a specific (non-fallback) code,
\* the code belongs to the status's family (404 not-found, 409 conflict, 413
\* size-limit, 403 plan/entitlement, 400 invalid input); and one status maps
\* to different codes in different handlers: 403 gives three different codes
\* on search, on webhook creation and on embedding store.
C10_StatusFamilies ==
    (Returned /\ Flagged(result.out) /\ ErrorCode(result.out) # GenericCode(call.h)) =>
        LET e == Tried.err IN
        /\ ErrorCode(result.out) \in Family(StatusOf(e))
        /\ StatusOf(e) = 403 =>
               Cardinality({ CodeFor("semantic_search", call.args, e),
                             CodeFor("create_webhook", call.args, e),
                             CodeFor("store_with_embedding", call.args, e) }) = 3

C10_Witness ==
    /\ Returned
    /\ call.h = "diff_versions"
    /\ ~result.settled.ok
    /\ StatusOf(result.settled.err) = 403
    /\ ErrorCode(result.out) = "PRO_FEATURE"


(***************************************************************************)
(* Properties of the outbound calls (ToolSpec, ClientSpec) and of the      *)
(* filter compiler (CompilerSpec).                                         *)
(***************************************************************************)
\* C11: a handler invocation issues at most one outbound call, REST or SDK:
\* one has been issued when it awaits, and none is added when the call has
\* settled, successfully or not (no retry).
C11_SingleAttempt ==
    /\ call.st = "awaiting" => Len(call.sent) <= 1
    /\ Done => /\ Len(result.sent) <= 1
               /\ result.sent = call.sent

\* a failed REST call, not tried again
C11_Witness ==
    /\ Done
    /\ call.h = "store_with_embedding"
    /\ ~result.settled.ok
    /\ Len(result.sent) = 1
    /\ result.sent[1].opts.method = "PUT"

\* the context main() resolved at startup and gave to the SDK client
StartupContext == db.config

\* the call uses the api key, project and base URL of the startup context
UsesStartupContext(c) ==
    IF c.via = "sdk" THEN c.config = StartupContext
    ELSE /\ c.opts.headers.Authorization = "Bearer " \o StartupContext.apiKey.s
         /\ Len(c.url) >= Len(StartupContext.baseUrl.k) + 2
         /\ SubSeq(c.url, 1, Len(StartupContext.baseUrl.k) + 2)
                = StartupContext.baseUrl.k \o <<"/", StartupContext.project.s>>

\* C16: the context is fixed at startup, and every outbound call of every
\* handler, through the SDK client or through fetch, uses that api key, that
\* project and that base URL.
C16_OneContextForAllCalls ==
    /\ db = NewJsonDB(env)
    /\ call.st \in {"awaiting", "done"} =>
           \A i \in 1..Len(call.sent) : UsesStartupContext(call.sent[i])

\* C18: the compiled value of a field is what its last entry gives: the raw
\* value for eq, {"$"+operator: value} for neq, gt, gte, lt, lte, contains,
\* in, exists, and the raw value for every other operator.
ExpectedValue(f) ==
    IF f.operator \in {"neq", "gt", "gte", "lt", "lte", "contains", "in", "exists"}
    THEN JObj(<< <<"$" \o f.operator, f.value>> >>)
    ELSE f.value

\* the last entry of the FilterSpec that names the field
LastEntry(filters, field) ==
    filters[CHOOSE i \in 1..Len(filters) :
                /\ filters[i].field = field
                /\ \A j \in (i + 1)..Len(filters) : filters[j].field # field]

FieldsOf(filters) == { filters[i].field : i \in 1..Len(filters) }

C18_OperatorMapping ==
    result.st = "compiled" =>
        \A field \in FieldsOf(call.filters) :
            Get(result.obj, field) = ExpectedValue(LastEntry(call.filters, field))

\* C19: the keys of the compiled mapping are the distinct fields of the
\* FilterSpec (none for the empty one), and each field's entry is what its
\* last entry alone compiles to.
KeysOf(obj) == { obj.o[i][1] : i \in 1..Len(obj.o) }

C19_KeysAndLastWins ==
    result.st = "compiled" =>
        /\ KeysOf(result.obj) = FieldsOf(call.filters)
        /\ Cardinality(KeysOf(result.obj)) = Len(result.obj.o)
        /\ \A field \in FieldsOf(call.filters) :
               Get(result.obj, field)
                   = Get(buildFilterObject(<<LastEntry(call.filters, field)>>), field)

\* C20: the REST client attaches the serialized body exactly when one is
\* supplied and the method is POST, PUT, PATCH or DELETE; a GET request never
\* has one; every request has the bearer credential.
C20_BodyForMutatingMethods ==
    call.st = "fetching" =>
        LET opts == call.sent[1].opts IN
        /\ "body" \in DOMAIN opts
               <=> (call.body # JUndef /\ call.method \in {"POST", "PUT", "PATCH", "DELETE"})
        /\ "body" \in DOMAIN opts => opts.body = Stringify(call.body)
        /\ opts.headers.Authorization = "Bearer " \o call.apiKey.s

(***************************************************************************)
(* Properties of the REST client's handling of the response (ClientSpec).  *)
(***************************************************************************)
\* the client function has run to its end on an HTTP response
ClientDone == result.st = "settled" /\ result.raw.net

\* the upstream body's error string: the "error" member of a body that parses
\* as a JSON object, when it is a non-empty string
HasErrorString(body) ==
    /\ Parse(body).ok
    /\ Parse(body).v.t = "obj"
    /\ Get(Parse(body).v, "error").t = "str"
    /\ Get(Parse(body).v, "error").s # ""

\* the failure the claim describes for a non-2xx response
UpstreamFailure(res) ==
    JObj(<< <<"status", JNum(res.status)>>,
            <<"message", IF HasErrorString(res.body) THEN Get(Parse(res.body).v, "error")
                         ELSE JStr(res.statusText)>> >>)

\* C21: for every non-2xx response the REST client fails with
\* {status, message}: the response's status, and the body's error string when
\* the body parses and has a non-empty one, the status text otherwise; an
\* unparsable body counts as {} and gives no other kind of failure.
C21_UpstreamFailure ==
    (ClientDone /\ ~ResOk(result.raw)) =>
        /\ ~result.settled.ok
        /\ result.settled.err = UpstreamFailure(result.raw)

\* the handler's backing call is a direct REST call and got a 2xx response
RestSuccess ==
    /\ Done
    /\ call.h \notin SdkHandlers
    /\ result.raw.net
    /\ ResOk(result.raw)

\* C22: for every handler that makes a direct REST call, a 204 response gives
\* the empty-success sentinel { ok: true } whatever the body, and any other
\* 2xx response whose body parses gives the parsed value itself.
C22_SuccessResponses ==
    RestSuccess =>
        IF result.raw.status = 204
        THEN result.settled = Resolved(OkSentinel)
        ELSE Parse(result.raw.body).ok =>
                 result.settled = Resolved(Parse(result.raw.body).v)

(***************************************************************************)
(* Properties of single handlers' outbound calls and results (ToolSpec).   *)
(***************************************************************************)
\* handler h has been entered and has issued its call
Called(h) == call.st \in {"awaiting", "done"} /\ call.h = h

\* the URL of a path below {base}/{project}
ProjectUrl(segments) ==
    resolveEnv(env).baseUrl.k \o <<"/", resolveEnv(env).project.s>> \o segments

\* C23: store_with_embedding issues exactly one call, chosen before the call
\* and not changed by its outcome: PUT {base}/{project}/{collection}/{id} when
\* an id (a non-empty one) is given, POST {base}/{project}/{collection} when
\* none is; the body is the caller's data with $embed set to embed_field,
\* whatever $embed the data had.
C23_StoreWithEmbedding ==
    Called("store_with_embedding") =>
        LET c == call.sent[1]
            args == call.args
            body == Parse(c.opts.body)
        IN /\ Len(call.sent) = 1
           /\ Done => result.sent = call.sent
           /\ c.via = "fetch"
           /\ IF args.id # ""
              THEN /\ c.opts.method = "PUT"
                   /\ c.url = ProjectUrl(<<"/", args.collection, "/", args.id>>)
              ELSE /\ c.opts.method = "POST"
                   /\ c.url = ProjectUrl(<<"/", args.collection>>)
           /\ body.ok
           /\ KeysOf(body.v) = KeysOf(args.data) \cup {"$embed"}
           /\ Cardinality(KeysOf(body.v)) = Len(body.v.o)
           /\ Get(body.v, "$embed") = JStr(args.embed_field)
           /\ \A k \in KeysOf(args.data) \ {"$embed"} : Get(body.v, k) = Get(args.data, k)

\* a PUT with an id, for data that has a $embed key of its own
C23_Witness ==
    /\ Done
    /\ call.h = "store_with_embedding"
    /\ call.args.id # ""
    /\ Get(call.args.data, "$embed") = JStr("n")
    /\ result.sent[1].opts.method = "PUT"
    /\ Get(Parse(result.sent[1].opts.body).v, "$embed") = JStr("text")

\* the document list the claim gives for an upstream payload
ExportDocuments(payload) ==
    CASE payload.t = "arr" -> payload
      [] payload.t = "obj" /\ "data" \in KeysOf(payload) -> Get(payload, "data")
      [] OTHER -> JArr(<<>>)

\* C24: export_collection turns the upstream payload into
\* {collection, count, documents}: documents is the payload when it is an
\* array, its data field when it is an object that has one, the empty list
\* otherwise; count is the number of elements of documents.
C24_ExportNormalized ==
    (Done /\ call.h = "export_collection" /\ result.settled.ok) =>
        LET docs == ExportDocuments(result.settled.v) IN
        /\ Returned
        /\ ~Flagged(result.out)
        /\ docs.t = "arr"
        /\ Decoded(result.out).ok
        /\ Decoded(result.out).v
               = JObj(<< <<"collection", JStr(call.args.collection)>>,
                         <<"count", JNum(Len(docs.a))>>,
                         <<"documents", docs>> >>)

\* the text of a query parameter, first or later in the query string
IsParam(item, key, val) == item = key \o "=" \o val \/ item = "&" \o key \o "=" \o val

\* the text of a string argument ("" for one that is absent)
TextOf(arg) == IF arg.t = "str" THEN arg.s ELSE ""

\* an optional string argument is supplied: present and not empty
Supplied(arg) == arg # JUndef /\ arg # JStr("")

\* C25: import_documents sends one POST to {base}/{project}/{collection}/_import
\* with the documents as the body; the query string has onConflict exactly
\* when a conflict mode is supplied and idField exactly when a (non-empty) id
\* field is supplied, and is absent when neither is; a failure with status 413
\* is reported as IMPORT_TOO_LARGE, one with status 409 as IMPORT_CONFLICT,
\* any other failure as IMPORT_FAILED.
C25_ImportCall ==
    Called("import_documents") =>
        LET c == call.sent[1]
            args == call.args
            path == ProjectUrl(<<"/", args.collection, "/", "_import">>)
            query == SubSeq(c.url, Len(path) + 1, Len(c.url))
            items == { query[i] : i \in 2..Len(query) }
            count == (IF Supplied(args.onConflict) THEN 1 ELSE 0)
                         + (IF Supplied(args.idField) THEN 1 ELSE 0)
        IN /\ Len(call.sent) = 1
           /\ c.via = "fetch"
           /\ c.opts.method = "POST"
           /\ c.opts.body = Stringify(args.documents)
           /\ SubSeq(c.url, 1, Len(path)) = path
           /\ Len(query) = IF count = 0 THEN 0 ELSE count + 1
           /\ count > 0 => query[1] = "?"
           /\ Supplied(args.onConflict)
                  <=> \E item \in items : IsParam(item, "onConflict", TextOf(args.onConflict))
           /\ Supplied(args.idField)
                  <=> \E item \in items : IsParam(item, "idField", TextOf(args.idField))
           /\ (Done /\ ~result.settled.ok) =>
                  /\ Returned
                  /\ IsErrorPayload(Decoded(result.out))
                  /\ ErrorCode(result.out)
                         = CASE StatusOf(result.settled.err) = 413 -> "IMPORT_TOO_LARGE"
                             [] StatusOf(result.settled.err) = 409 -> "IMPORT_CONFLICT"
                             [] OTHER -> "IMPORT_FAILED"

\* a conflict reported for an import that named both a conflict mode and an
\* id field
C25_Witness ==
    /\ Returned
    /\ call.h = "import_documents"
    /\ call.args.onConflict = JStr("overwrite")
    /\ call.args.idField = JStr("sku")
    /\ Len(result.sent[1].url) = Len(ProjectUrl(<<"/", "logs", "/", "_import">>)) + 3
    /\ ~result.settled.ok
    /\ StatusOf(result.settled.err) = 409
    /\ ErrorCode(result.out) = "IMPORT_CONFLICT"

\* C26: json_patch_document hands the caller's operations to the backing call
\* as they are and in their order, and reports a failure by its status: 404
\* as DOCUMENT_NOT_FOUND, 409 as PATCH_CONFLICT, 400 as VALIDATION_ERROR,
\* anything else as JSON_PATCH_FAILED.
C26_JsonPatch ==
    Called("json_patch_document") =>
        LET c == call.sent[1]
            args == call.args
        IN /\ Len(call.sent) = 1
           /\ c.via = "sdk"
           /\ c.collection = args.collection
           /\ c.method = "jsonPatch"
           /\ c.params = <<JStr(args.id), args.operations>>
           /\ (Done /\ ~result.settled.ok) =>
                  /\ Returned
                  /\ IsErrorPayload(Decoded(result.out))
                  /\ ErrorCode(result.out)
                         = CASE StatusOf(result.settled.err) = 404 -> "DOCUMENT_NOT_FOUND"
                             [] StatusOf(result.settled.err) = 409 -> "PATCH_CONFLICT"
                             [] StatusOf(result.settled.err) = 400 -> "VALIDATION_ERROR"
                             [] OTHER -> "JSON_PATCH_FAILED"

\* a failed test assertion: the two operations were sent in order and the 409
\* is reported as a conflict
C26_Witness ==
    /\ Returned
    /\ call.h = "json_patch_document"
    /\ Len(result.sent[1].params[2].a) = 2
    /\ Get(result.sent[1].params[2].a[1], "op") = JStr("test")
    /\ Get(result.sent[1].params[2].a[2], "op") = JStr("replace")
    /\ ~result.settled.ok
    /\ StatusOf(result.settled.err) = 409
    /\ ErrorCode(result.out) = "PATCH_CONFLICT"

\* the fields of the webhook an update can name
WebhookFields == {"url", "events", "description", "status"}

\* the value the caller gave for a field of the update (JUndef when omitted)
GivenField(args, field) ==
    CASE field = "url" -> args.url
      [] field = "events" -> args.events
      [] field = "description" -> args.description
      [] field = "status" -> args.status

\* C27: the body update_webhook sends has exactly the fields among url,
\* events, description and status that the caller gave, each with the value
\* given (an empty one included); a field the caller left out is not in it.
C27_UpdateWebhookBody ==
    Called("update_webhook") =>
        LET c == call.sent[1]
            args == call.args
            body == Parse(c.opts.body)
        IN /\ Len(call.sent) = 1
           /\ c.via = "fetch"
           /\ c.opts.method = "PUT"
           /\ c.url = ProjectUrl(<<"/", args.collection, "/", "_webhooks", "/", args.webhookId>>)
           /\ body.ok
           /\ body.v.t = "obj"
           /\ KeysOf(body.v) = { f \in WebhookFields : GivenField(args, f) # JUndef }
           /\ Cardinality(KeysOf(body.v)) = Len(body.v.o)
           /\ \A f \in KeysOf(body.v) : Get(body.v, f) = GivenField(args, f)

\* an update that gives an empty description and a status, and neither url
\* nor events
C27_Witness ==
    /\ Done
    /\ call.h = "update_webhook"
    /\ call.args.url = JUndef
    /\ call.args.description = JStr("")
    /\ KeysOf(Parse(result.sent[1].opts.body).v) = {"description", "status"}

\* C30: in a started process every outbound call carries the credential that
\* passed the startup check, which is not empty: the SDK client was
\* configured with it, and the direct REST calls, which read it again with
\* "" as fallback, send it as the bearer token.
C30_NoEmptyBearer ==
    /\ Truthy(db.config.apiKey)
    /\ call.st \in {"awaiting", "done"} =>
           \A i \in 1..Len(call.sent) :
               LET c == call.sent[i] IN
               IF c.via = "sdk"
               THEN c.config.apiKey = env.apiKey /\ c.config.apiKey.s # ""
               ELSE /\ c.opts.headers.Authorization = "Bearer " \o env.apiKey.s
                    /\ c.opts.headers.Authorization # "Bearer "

\* an inline REST call and its bearer token
C30_Witness ==
    /\ call.st = "awaiting"
    /\ call.h = "list_collections"
    /\ call.sent[1].via = "fetch"
    /\ call.sent[1].opts.headers.Authorization = "Bearer jdb_sk_test_1"
====
